---- MODULE Spec2Model ----
(***************************************************************************)
(* Credential & Tool-Access Hub of the snack Slack worker.                 *)
(*                                                                         *)
(* The key-value namespace SNACK-KV is one variable, kv; the clock read by *)
(* Date.now() is the variable now (milliseconds).  The OAuth callback is   *)
(* one process per request, split at its awaits; the Slack handlers that   *)
(* do one store operation are single actions.                              *)
(***************************************************************************)
EXTENDS Integers, Sequences, FiniteSets, TLC

VARIABLES
    now,          \* Date.now(), in milliseconds
    ENCRYPTION_KEY, \* env.ENCRYPTION_KEY ("null" when not configured)
    kv,           \* SNACK-KV: key -> [val, exp]
    issued,       \* history: the state tokens stored by oauth_setup, in order
    sentUrls,     \* history: the state tokens sent out in an authorization URL
    starts,       \* history: number of runs of oauth_setup
    rndCount,     \* history: number of random state tokens drawn so far
    ticks,        \* history: number of clock advances taken
    pc,           \* callback request -> position in handleOAuthCallback
    req,          \* callback request -> query parameters [code, state, error]
    stateData,    \* callback request -> flow state read by getOAuthState
    tokenData,    \* callback request -> token JSON of the provider, stamped
    resp,         \* callback request -> HTTP response [status, body]
    exchange,     \* history: callback request -> what the token fetch gave
    afterSuccess, \* history: callback request arrived after a success for its state
    refreshUrl,   \* deployment: service -> refreshUrl of its OAUTH_CONFIGS entry
    call,         \* history: the latest call of a hub function and the state it ran in
    ret,          \* history: what that call returned and what it did on the way
    fetches,      \* history: number of refresh fetches made
    hkind,        \* hub request -> what it runs: a tool listing, a bare
                  \* createAgentWithMCPTools, or the message handler
    hpc,          \* hub request -> position in it
    clog,         \* history: hub request -> the calls made on its MCPClient
    hret,         \* hub request -> how it ended and what it gave
    wpc,          \* store writer -> position in its load / mutate / put
    wcall,        \* store writer -> the call it runs
    wloaded,      \* store writer -> the document it loaded
    wdone,        \* history: store writer -> its latest completed call
    puts,         \* history: number of puts of the store writers
    overlaps,     \* history: number of loads made while another call was in flight
    appended      \* history: the messages of the completed addMessageToHistory calls

vars == <<now, ENCRYPTION_KEY, kv, issued, sentUrls, starts, rndCount, ticks,
          pc, req, stateData, tokenData, resp, exchange, afterSuccess,
          refreshUrl, call, ret, fetches,
          hkind, hpc, clog, hret,
          wpc, wcall, wloaded, wdone, puts, overlaps, appended>>

hubVars == <<refreshUrl, call, ret, fetches>>

chatVars == <<hkind, hpc, clog, hret>>

writerVars == <<wpc, wcall, wloaded, wdone, puts, overlaps, appended>>

\* JavaScript null / undefined
Null == "null"

startVars == <<issued, sentUrls, starts, rndCount>>

cbVars == <<pc, req, stateData, tokenData, resp, exchange, afterSuccess>>

-----------------------------------------------------------------------------
(* Bounds of the model *)

NumCallbacks == 2
MaxStarts == 2
MaxTicks == 1

Callbacks == 1..NumCallbacks
Users == {"U1", "U2"}
\* submissions of the oauth_setup form: the user and the selected service
StartInputs ==
    { <<"U1", "github">>, <<"U1", "sentry">>, <<"U2", "github">>,
      <<"U1", "notion">>, <<"U1", "constructor">>, <<"U1", Null>> }
\* server names and URLs typed into the add-server form
ServerNameInputs == {"GitHub"}
ServerUrlInputs == {"https://x.test/mcp"}
Passphrases == {"pass1"}
Codes == {"code1"}

\* inputs of the hub functions
MaxFetches == 2
HubUsers == {"U1", "U2"}
HubServices == {"github"}
\* names and URLs given to saveServerToKV
HubServerInputs ==
    { <<"GitHub", "https://x.test/mcp">>, <<"Notion", "https://x.test/mcp">>,
      <<"Notion", "not a url">> }
\* names under which addUserApiKey stores a key
ApiKeyNames == {"GitHub", "github"}
ApiKeys == {"key1"}
\* passphrases a caller of the hub passes
HubPassphrases == {"pass1", "pass2"}

\* requests to the hub that run side by side, and what they register first
NumRequests == 2
MaxCleanups == 2
Requests == 1..NumRequests
ChatServerInputs == { <<"GitHub", "https://x.test/mcp">>, <<"Notion", "not a url">> }

\* calls that write one document of the store, side by side
NumWriters == 2
MaxPuts == 22
MaxRegistryPuts == 3
MaxOverlaps == 1
Writers == 1..NumWriters

-----------------------------------------------------------------------------
(* Static provider configuration *)

OAUTH_CONFIGS ==
    [s \in {"sentry", "github"} |->
        IF s = "sentry"
        THEN [truthy    |-> TRUE,
              authUrl   |-> "https://sentry.io/oauth/authorize/",
              tokenUrl  |-> "https://sentry.io/oauth/token/",
              serverUrl |-> "https://mcp.sentry.dev/mcp",
              refreshUrl |-> Null]
        ELSE [truthy    |-> TRUE,
              authUrl   |-> "https://github.com/login/oauth/authorize",
              tokenUrl  |-> "https://github.com/login/oauth/access_token",
              serverUrl |-> "https://api.githubcopilot.com/mcp/",
              refreshUrl |-> Null]]

\* Object.keys(OAUTH_CONFIGS)
allowedServices == DOMAIN OAUTH_CONFIGS

\* names every object literal inherits from Object.prototype
ObjectPrototypeKeys == {"constructor", "toString", "valueOf", "hasOwnProperty"}

\* OAUTH_CONFIGS[service]: an own entry, a member inherited from
\* Object.prototype (truthy, with none of the config fields), or undefined
\* (not truthy)
ConfigLookup(service) ==
    IF service \in DOMAIN OAUTH_CONFIGS THEN OAUTH_CONFIGS[service]
    ELSE [truthy |-> service \in ObjectPrototypeKeys,
          authUrl |-> Null, tokenUrl |-> Null, serverUrl |-> Null, refreshUrl |-> Null]

\* String.prototype.toLowerCase on the names and URLs of the model
toLowerCase(s) ==
    CASE s = "GitHub" -> "github"
      [] s = "Sentry" -> "sentry"
      [] s = "Notion" -> "notion"
      [] s = "https://X.test/MCP" -> "https://x.test/mcp"
      [] OTHER -> s

-----------------------------------------------------------------------------
(* Key-value store: get / put with optional TTL / delete *)

\* get(key): the stored value, or absent (the caller's null) when nothing is
\* stored under key or its TTL has elapsed
KVGet(store, key, t, absent) ==
    IF key \in DOMAIN store /\ (store[key].exp = 0 \/ t < store[key].exp)
    THEN store[key].val
    ELSE absent

\* put(key, value, {expirationTtl}): ttl in seconds, 0 for none
KVPut(store, key, val, ttl, t) ==
    (key :> [val |-> val, exp |-> IF ttl = 0 THEN 0 ELSE t + ttl * 1000]) @@ store

KVDelete(store, key) == [k \in DOMAIN store \ {key} |-> store[k]]

-----------------------------------------------------------------------------
(* Values *)

\* a token JSON object; absent string fields are Null, absent numbers are 0
NoToken ==
    [access_token |-> Null, accessToken |-> Null, token |-> Null,
     refresh_token |-> Null, expires_in |-> 0, expires_at |-> 0, issued_at |-> 0]

\* plaintexts: the JSON text of a token object, a raw string, or ""
JSONstringify(td) == [kind |-> "json", json |-> td, raw |-> Null]
RawText(s) == [kind |-> "raw", json |-> NoToken, raw |-> s]
EmptyText == [kind |-> "empty", json |-> NoToken, raw |-> Null]

\* null results of the storage getters
NoStateData == [userId |-> Null, service |-> Null, timestamp |-> 0]
NoCiphertext == [key |-> Null, plain |-> EmptyText]

-----------------------------------------------------------------------------
(* Cipher *)

\* CryptoJS.AES.encrypt(text, key).toString()
encrypt(text, key) == [key |-> key, plain |-> text]

\* a call that throws instead of returning a text
ThrownText == [kind |-> "throws", json |-> NoToken, raw |-> Null]

\* what the bytes of a ciphertext can decode to under a key that did not
\* encrypt it: no bytes at all (""), bytes that are not UTF-8 (toString
\* throws "Malformed UTF-8 data"), or some meaningless text
Garbles == {"empty", "malformed", "text"}

\* decrypt(encryptedText, env): throws without a key; the plaintext under the
\* key that encrypted it; under any other key what garble says
decrypt(ct, key, garble) ==
    IF key = Null THEN ThrownText
    ELSE IF ct.key = key THEN ct.plain
    ELSE CASE garble = "empty" -> EmptyText
           [] garble = "malformed" -> ThrownText
           [] OTHER -> RawText("garbage")

-----------------------------------------------------------------------------
(* Storage functions *)

OAuthStateKey(state) == "oauth:state:" \o state
OAuthTokenKey(userId, service) == "oauth:token:" \o userId \o ":" \o service
ServersKey == "servers:config"

OAuthStateTtl == 600

\* variant: the put carries no expirationTtl
storeOAuthState_noTtl(store, state, data, t) ==
    KVPut(store, OAuthStateKey(state), data, 0, t)

storeOAuthState(store, state, data, t) ==
    KVPut(store, OAuthStateKey(state), data, OAuthStateTtl, t)

getOAuthState(store, state, t) == KVGet(store, OAuthStateKey(state), t, NoStateData)

\* variant: the delete is dropped
deleteOAuthState_keep(store, state) == store

deleteOAuthState(store, state) == KVDelete(store, OAuthStateKey(state))

\* variant: the key leaves out the user
storeOAuthToken_byService(store, userId, service, encryptedToken, t) ==
    KVPut(store, "oauth:token:" \o service, encryptedToken, 0, t)

storeOAuthToken(store, userId, service, encryptedToken, t) ==
    KVPut(store, OAuthTokenKey(userId, service), encryptedToken, 0, t)

getEncryptedOAuthToken(store, userId, service, t) ==
    KVGet(store, OAuthTokenKey(userId, service), t, NoCiphertext)

EmptyRegistry == [n \in {} |-> Null]

loadServers(store, t) == KVGet(store, ServersKey, t, EmptyRegistry)

\* the mutation and put of saveServer, on the document it loaded
saveServerPut(store, loaded, serverName, serverUrl, t) ==
    KVPut(store, ServersKey, (toLowerCase(serverName) :> serverUrl) @@ loaded, 0, t)

saveServer(store, serverName, serverUrl, t) ==
    saveServerPut(store, loadServers(store, t), serverName, serverUrl, t)

\* variant: the filter is inverted, only the named entry stays
removeServerPut_keepOnly(store, loaded, serverName, t) ==
    KVPut(store, ServersKey,
          [n \in DOMAIN loaded \cap {toLowerCase(serverName)} |-> loaded[n]], 0, t)

\* the mutation and put of removeServer, on the document it loaded
removeServerPut(store, loaded, serverName, t) ==
    KVPut(store, ServersKey,
          [n \in DOMAIN loaded \ {toLowerCase(serverName)} |-> loaded[n]], 0, t)

removeServer(store, serverName, t) ==
    removeServerPut(store, loadServers(store, t), serverName, t)

\* ServerConfigManager.addServer of the API worker, on the document it loaded
addServerPut(store, loaded, serverName, serverUrl, t) ==
    KVPut(store, ServersKey,
          (toLowerCase(serverName) :> toLowerCase(serverUrl)) @@ loaded, 0, t)

\* ServerConfigManager.removeServer of the API worker, on the document it
\* loaded: delete servers[serverName]
apiRemoveServerPut(store, loaded, serverName, t) ==
    KVPut(store, ServersKey, [n \in DOMAIN loaded \ {serverName} |-> loaded[n]], 0, t)

-----------------------------------------------------------------------------
(* Token resolution *)

\* variant: the lifetime is not converted to milliseconds
TokenExpired_seconds(td, t) ==
    IF td.issued_at # 0 /\ td.expires_in # 0
    THEN t >= td.issued_at + td.expires_in
    ELSE td.expires_at # 0 /\ t >= td.expires_at * 1000

\* the expiry test of getOAuthToken (a missing and a zero number are both falsy)
TokenExpired(td, t) ==
    IF td.issued_at # 0 /\ td.expires_in # 0
    THEN t >= td.issued_at + td.expires_in * 1000
    ELSE td.expires_at # 0 /\ t >= td.expires_at * 1000

\* env as a function gets it: undefined, or the object with the store and
\* the passphrase
NoEnv == [present |-> FALSE, ENCRYPTION_KEY |-> Null]
EnvOf(key) == [present |-> TRUE, ENCRYPTION_KEY |-> key]

\* OAUTH_CONFIGS[service] as refreshOAuthToken reads it
Config(service) ==
    [ConfigLookup(service) EXCEPT !.refreshUrl =
        IF service \in DOMAIN refreshUrl THEN refreshUrl[service] ELSE Null]

\* what the refresh endpoint can send with a 2xx status
RefreshBodies ==
    { [NoToken EXCEPT !.access_token = "at3", !.expires_in = 600],
      [NoToken EXCEPT !.access_token = "at4", !.refresh_token = "rt2",
                      !.expires_in = 600] }

\* no fetch is made
NoFetch == [kind |-> "none", ok |-> FALSE, body |-> NoToken]

\* what fetch(config.refreshUrl) can give
RefreshOutcomes ==
    {[kind |-> "response", ok |-> TRUE, body |-> b] : b \in RefreshBodies}
    \cup {[kind |-> "response", ok |-> FALSE, body |-> NoToken],
          [kind |-> "network_error", ok |-> FALSE, body |-> NoToken]}

\* tokenData.access_token || tokenData.accessToken || tokenData.token
AccessTokenOf(td) ==
    IF td.access_token # Null THEN td.access_token
    ELSE IF td.accessToken # Null THEN td.accessToken
    ELSE td.token

\* variant: the stale record is deleted when the refresh fails
refreshOAuthToken_dropStale(store, userId, service, td, env, t, r) ==
    LET config == Config(service)
        newTokenData == [r.body EXCEPT !.issued_at = t + 1]
    IN  IF ~config.truthy \/ config.refreshUrl = Null \/ td.refresh_token = Null
        THEN [value |-> Null, store |-> KVDelete(store, OAuthTokenKey(userId, service)),
              t |-> t, refresh |-> "cannot"]
        ELSE IF r.kind = "network_error" \/ ~r.ok
        THEN [value |-> Null, store |-> KVDelete(store, OAuthTokenKey(userId, service)),
              t |-> t + 1, refresh |-> "failed"]
        ELSE [value |-> newTokenData.access_token,
              store |-> storeOAuthToken(store, userId, service,
                            encrypt(JSONstringify(newTokenData), env.ENCRYPTION_KEY),
                            t + 1),
              t |-> t + 1, refresh |-> "ok"]

\* variant: the new token is stored without the issued_at stamp
refreshOAuthToken_noStamp(store, userId, service, td, env, t, r) ==
    IF ~Config(service).truthy \/ Config(service).refreshUrl = Null
       \/ td.refresh_token = Null
    THEN [value |-> Null, store |-> store, t |-> t, refresh |-> "cannot"]
    ELSE IF r.kind = "network_error" \/ ~r.ok
    THEN [value |-> Null, store |-> store, t |-> t + 1, refresh |-> "failed"]
    ELSE [value |-> r.body.access_token,
          store |-> storeOAuthToken(store, userId, service,
                        encrypt(JSONstringify(r.body), env.ENCRYPTION_KEY), t + 1),
          t |-> t + 1, refresh |-> "ok"]

\* refreshOAuthToken: the value returned, the store and the clock after it,
\* and how the refresh went: "cannot" (no fetch is made), "failed" (the fetch
\* rejects or the response is not ok) or "ok"; r is what the fetch gives
refreshOAuthToken(store, userId, service, td, env, t, r) ==
    LET config == Config(service)
        newTokenData == [r.body EXCEPT !.issued_at = t + 1]
    IN  IF ~config.truthy \/ config.refreshUrl = Null \/ td.refresh_token = Null
        THEN [value |-> Null, store |-> store, t |-> t, refresh |-> "cannot"]
        ELSE IF r.kind = "network_error" \/ ~r.ok
        THEN [value |-> Null, store |-> store, t |-> t + 1, refresh |-> "failed"]
        ELSE [value |-> newTokenData.access_token,
              store |-> storeOAuthToken(store, userId, service,
                            encrypt(JSONstringify(newTokenData), env.ENCRYPTION_KEY),
                            t + 1),
              t |-> t + 1, refresh |-> "ok"]

\* the try block of getOAuthToken: the access token or Null, or a throw (no
\* env, no passphrase, bytes that are not UTF-8, text that is not JSON), with
\* the store and the clock after it and how the refresh went ("none" when
\* refreshOAuthToken is not called)
tryGetOAuthToken(store, userId, service, env, t, r, garble) ==
    LET encryptedToken == getEncryptedOAuthToken(store, userId, service, t)
        decryptedData == decrypt(encryptedToken, env.ENCRYPTION_KEY, garble)
        td == decryptedData.json
        absent == [value |-> Null, threw |-> FALSE, store |-> store, t |-> t,
                   refresh |-> "none"]
        refreshed == refreshOAuthToken(store, userId, service, td, env, t, r)
    IN  IF ~env.present THEN [absent EXCEPT !.threw = TRUE]
        ELSE IF encryptedToken = NoCiphertext THEN absent
        ELSE IF decryptedData.kind # "json" THEN [absent EXCEPT !.threw = TRUE]
        ELSE IF TokenExpired(td, t)
        THEN [value |-> refreshed.value, threw |-> FALSE, store |-> refreshed.store,
              t |-> refreshed.t, refresh |-> refreshed.refresh]
        ELSE [absent EXCEPT !.value = AccessTokenOf(td)]

\* variant: no catch around the body
catchReturnNull_rethrow(res) == res

\* catch (error) { return null; }
catchReturnNull(res) == IF res.threw THEN [res EXCEPT !.threw = FALSE] ELSE res

\* getOAuthToken of the oauth module
getOAuthToken(store, userId, service, env, t, r, garble) ==
    catchReturnNull(tryGetOAuthToken(store, userId, service, env, t, r, garble))

\* the refresh endpoint was fetched
Fetched(g) == g.refresh \in {"failed", "ok"}

-----------------------------------------------------------------------------
(* API keys *)

\* variant: the key leaves out the user
AuthKey_byService(userId, serviceName) == "auth:" \o serviceName

AuthKey(userId, serviceName) == "auth:" \o userId \o ":" \o serviceName

\* JSON.stringify({ apiKey: encryptedApiKey }); without a record, no key
NoAuthData == [apiKey |-> NoCiphertext]

storeUserApiKey(store, userId, serviceName, encryptedApiKey, t) ==
    KVPut(store, AuthKey(userId, serviceName), [apiKey |-> encryptedApiKey], 0, t)

getUserApiKey(store, userId, serviceName, t) ==
    KVGet(store, AuthKey(userId, serviceName), t, NoAuthData).apiKey

\* findUserApiKey returns undefined when no record is found
UndefinedText == [kind |-> "undefined", json |-> NoToken, raw |-> Null]

\* findUserApiKey: the first record found under serverName and under
\* serverName.toLowerCase(), decrypted with the passphrase of the caller
findUserApiKey(store, userId, serverName, encryptionKey, t, garble) ==
    LET first == getUserApiKey(store, userId, serverName, t)
        second == getUserApiKey(store, userId, toLowerCase(serverName), t)
        encryptedApiKey == IF first # NoCiphertext THEN first ELSE second
    IN  IF encryptedApiKey = NoCiphertext THEN UndefinedText
        ELSE decrypt(encryptedApiKey, encryptionKey, garble)

-----------------------------------------------------------------------------
(* Connection descriptors *)

\* the services with an OAuth flow
OAUTH_SERVICES == {"sentry", "github"}

\* strings that new URL() rejects
UnparsableUrls == {"not a url"}

URLParses(serverUrl) == serverUrl \notin UnparsableUrls

\* serverName.toLowerCase() === 'sentry' ? `Token ${apiKey}` : `Bearer ${apiKey}`
authHeader(serverName, apiKey) ==
    (IF toLowerCase(serverName) = "sentry" THEN "Token " ELSE "Bearer ") \o apiKey

\* variant: the OAuth token is not taken over as the credential
Credential_apiKeyOnly(oauthToken, found) ==
    IF found.kind = "raw" THEN found.raw ELSE Null

\* the truthy apiKey of one pass of the loop, or Null: the OAuth token when
\* there is one, else the non-empty text of findUserApiKey
Credential(oauthToken, found) ==
    IF oauthToken # Null THEN oauthToken
    ELSE IF found.kind = "raw" THEN found.raw
    ELSE Null

\* variant: a server without a credential is left out
PutConfig_onlyAuthenticated(servers, serverName, serverUrl, apiKey) ==
    IF apiKey = Null THEN servers
    ELSE (serverName :> [url |-> serverUrl,
                         Authorization |-> authHeader(serverName, apiKey)]) @@ servers

\* servers[serverName] = serverConfig, with the Authorization header when
\* there is a credential
PutConfig(servers, serverName, serverUrl, apiKey) ==
    (serverName :>
        [url |-> serverUrl,
         Authorization |-> IF apiKey # Null THEN authHeader(serverName, apiKey)
                           ELSE Null]) @@ servers

\* Object.entries(globalServers), as a sequence of names
RECURSIVE Entries(_)
Entries(names) ==
    IF names = {} THEN << >>
    ELSE LET n == CHOOSE n \in names : TRUE
         IN  <<n>> \o Entries(names \ {n})

\* the result of buildServerConfigs before the loop
BuildStart(store, t) ==
    [store |-> store, t |-> t, threw |-> FALSE,
     servers |-> [n \in {} |-> Null], oauth |-> [n \in {} |-> Null],
     tokenReads |-> {}, authReads |-> {}, fetched |-> 0]

\* one pass of the loop of buildServerConfigs; a throw ends the function
BuildOne(acc, userId, encryptionKey, env, serverName, serverUrl, r, garble) ==
    LET capable == encryptionKey # Null /\ toLowerCase(serverName) \in OAUTH_SERVICES
        g == getOAuthToken(acc.store, userId, serverName, env, acc.t, r, garble)
        oauthToken == IF capable THEN g.value ELSE Null
        store == IF capable THEN g.store ELSE acc.store
        t == IF capable THEN g.t ELSE acc.t
        lookup == encryptionKey # Null /\ oauthToken = Null
        found == IF lookup
                 THEN findUserApiKey(store, userId, serverName, encryptionKey, t, garble)
                 ELSE UndefinedText
        apiKey == Credential(oauthToken, found)
        after == [acc EXCEPT
                    !.store = store,
                    !.t = t,
                    !.oauth = IF capable THEN (serverName :> oauthToken) @@ @ ELSE @,
                    !.tokenReads = IF capable /\ env.present
                                   THEN @ \cup {OAuthTokenKey(userId, serverName)} ELSE @,
                    !.authReads = IF lookup
                                  THEN @ \cup {AuthKey(userId, serverName),
                                               AuthKey(userId, toLowerCase(serverName))}
                                  ELSE @,
                    !.fetched = IF capable /\ Fetched(g) THEN @ + 1 ELSE @]
    IN  IF acc.threw THEN acc
        ELSE IF capable /\ g.threw THEN [acc EXCEPT !.threw = TRUE]
        ELSE IF found.kind = "throws" \/ ~URLParses(serverUrl)
        THEN [after EXCEPT !.threw = TRUE]
        ELSE [after EXCEPT !.servers = PutConfig(@, serverName, serverUrl, apiKey)]

RECURSIVE BuildLoop(_, _, _, _, _, _, _, _)
BuildLoop(acc, userId, encryptionKey, env, globalServers, entries, r, garble) ==
    IF entries = << >> THEN acc
    ELSE BuildLoop(BuildOne(acc, userId, encryptionKey, env, Head(entries),
                            globalServers[Head(entries)], r, garble),
                   userId, encryptionKey, env, globalServers, Tail(entries), r, garble)

\* buildServerConfigs: the descriptors (or a throw), the store and the clock
\* after the call, and what it read on the way
buildServerConfigs(store, userId, encryptionKey, env, t, r, garble) ==
    LET globalServers == loadServers(store, t)
    IN  BuildLoop(BuildStart(store, t), userId, encryptionKey, env, globalServers,
                  Entries(DOMAIN globalServers), r, garble)

\* what mcpClient.getTools() and mcpClient.disconnect() can do
ClientOutcomes == {"ok", "throws"}

\* Object.keys(tools) for the servers of a client
ToolNames(servers) == {n \o "_tool" : n \in DOMAIN servers}

\* variant: no test for an empty registry
ListResult_noEmptyTest(globalServers, start, b, getTools, disconnect) ==
    IF b.threw
    THEN [build |-> b, outcome |-> "threw", tools |-> {},
          constructed |-> 0, disconnects |-> 0]
    ELSE [build |-> b,
          outcome |-> IF getTools = "ok" THEN "returned" ELSE "threw",
          tools |-> IF getTools = "ok" THEN ToolNames(b.servers) ELSE {},
          constructed |-> 1, disconnects |-> 1]

\* listAvailTools for the registry globalServers it loaded: for an empty
\* registry the empty list at once; else b is what its call of
\* buildServerConfigs gave, and getTools and disconnect what the two calls on
\* the client do.  The result: the names returned or the throw, the clients
\* constructed and the disconnects made.  A throw of disconnect is caught
ListResult(globalServers, start, b, getTools, disconnect) ==
    IF DOMAIN globalServers = {}
    THEN [build |-> start, outcome |-> "returned", tools |-> {},
          constructed |-> 0, disconnects |-> 0]
    ELSE IF b.threw
    THEN [build |-> b, outcome |-> "threw", tools |-> {},
          constructed |-> 0, disconnects |-> 0]
    ELSE [build |-> b,
          outcome |-> IF getTools = "ok" THEN "returned" ELSE "threw",
          tools |-> IF getTools = "ok" THEN ToolNames(b.servers) ELSE {},
          constructed |-> 1, disconnects |-> 1]

-----------------------------------------------------------------------------
(* The provider's token endpoint *)

TokenBodies ==
    { [NoToken EXCEPT !.access_token = "at1", !.refresh_token = "rt1",
                      !.expires_in = 600],
      [NoToken EXCEPT !.access_token = "at2"] }

\* what fetch(config.tokenUrl) can give: a 2xx response with a token (the
\* provider accepts the code), a non-2xx response (it does not), or a rejected
\* promise
FetchOutcomes ==
    {[kind |-> "response", ok |-> TRUE, body |-> b] : b \in TokenBodies}
    \cup {[kind |-> "response", ok |-> FALSE, body |-> NoToken],
          [kind |-> "network_error", ok |-> FALSE, body |-> NoToken]}

-----------------------------------------------------------------------------
(* Initial state: an empty namespace, no request in flight *)

NoRequest == [code |-> Null, state |-> Null, error |-> Null]

\* no hub function has been called
NoCall == [op |-> Null, userId |-> Null, service |-> Null, encryptionKey |-> Null,
           env |-> NoEnv, requireAuth |-> FALSE]
NoRet ==
    [value |-> Null, refresh |-> "none", fetched |-> 0, threw |-> FALSE,
     buildThrew |-> FALSE, servers |-> [n \in {} |-> Null], oauth |-> [n \in {} |-> Null],
     tokenReads |-> {}, authReads |-> {},
     tools |-> {}, constructed |-> 0, disconnects |-> 0,
     accessible |-> << >>, garble |-> Null,
     history |-> << >>, instructions |-> "", said |-> Null]

\* no request to the hub has started
NoHubResult == [outcome |-> "none", error |-> Null, tools |-> {}, cleanups |-> 0,
                said |-> Null]

NoRequests ==
    /\ hkind = [r \in Requests |-> Null]
    /\ hpc = [r \in Requests |-> "idle"]
    /\ clog = [r \in Requests |-> << >>]
    /\ hret = [r \in Requests |-> NoHubResult]

\* no writer has started
NoWriterCall == [op |-> Null, name |-> Null, url |-> Null, threadId |-> Null,
                 role |-> Null, content |-> 0]
NoLoaded == [servers |-> EmptyRegistry, messages |-> << >>]
NoDone == [call |-> NoWriterCall, loaded |-> NoLoaded, seq |-> 0, threw |-> FALSE]

NoWriters ==
    /\ wpc = [w \in Writers |-> "idle"]
    /\ wcall = [w \in Writers |-> NoWriterCall]
    /\ wloaded = [w \in Writers |-> NoLoaded]
    /\ wdone = [w \in Writers |-> NoDone]
    /\ puts = 0
    /\ overlaps = 0
    /\ appended = << >>

\* a step that records no call of getOAuthToken or listAvailTools
HubIdle ==
    /\ call' = NoCall
    /\ ret' = NoRet
    /\ UNCHANGED <<refreshUrl, fetches>>

\* a step that is no call of a hub function
NoHubCall ==
    /\ HubIdle
    /\ UNCHANGED chatVars
    /\ UNCHANGED writerVars
NoResponse == [status |-> 0, body |-> Null]

Init ==
    /\ now = 1
    /\ ENCRYPTION_KEY \in Passphrases
    /\ kv = [k \in {} |-> Null]
    /\ issued = << >>
    /\ sentUrls = {}
    /\ starts = 0
    /\ rndCount = 0
    /\ ticks = 0
    /\ pc = [c \in Callbacks |-> "request"]
    /\ req = [c \in Callbacks |-> NoRequest]
    /\ stateData = [c \in Callbacks |-> NoStateData]
    /\ tokenData = [c \in Callbacks |-> NoToken]
    /\ resp = [c \in Callbacks |-> NoResponse]
    /\ exchange = [c \in Callbacks |-> Null]
    /\ afterSuccess = [c \in Callbacks |-> FALSE]
    /\ refreshUrl = [s \in allowedServices |-> Null]
    /\ call = NoCall
    /\ ret = NoRet
    /\ fetches = 0
    /\ NoRequests
    /\ NoWriters

\* time passes between two steps, here in steps of the flow-state TTL
TickStep == OAuthStateTtl * 1000

Tick ==
    /\ ticks < MaxTicks
    /\ now' = now + TickStep
    /\ ticks' = ticks + 1
    /\ UNCHANGED <<ENCRYPTION_KEY, kv>>
    /\ UNCHANGED startVars
    /\ UNCHANGED cbVars
    /\ NoHubCall

-----------------------------------------------------------------------------
(* Starting an OAuth flow: the oauth_setup view handler *)

\* crypto.getRandomValues(new Uint8Array(32)) as 64 hex digits: the n-th draw.
\* A draw of 256 random bits is taken to differ from every earlier draw.
RandomState(n) == "rnd" \o ToString(n)

\* `${userId}-${selectedService}-${Date.now()}`
TimestampState(userId, service, t) == userId \o "-" \o service \o "-" \o ToString(t)

\* the revision that validates against Object.keys(OAUTH_CONFIGS) and draws a
\* random state
oauth_setup(userId, selectedService) ==
    /\ starts < MaxStarts
    /\ starts' = starts + 1
    /\ IF selectedService = Null \/ selectedService \notin allowedServices
       THEN UNCHANGED <<kv, issued, sentUrls, rndCount>>
       ELSE LET state == RandomState(rndCount + 1)
            IN  /\ rndCount' = rndCount + 1
                /\ kv' = storeOAuthState(kv, state,
                            [userId |-> userId, service |-> selectedService,
                             timestamp |-> now], now)
                /\ issued' = Append(issued, state)
                /\ sentUrls' = sentUrls \cup {state}
    /\ UNCHANGED <<now, ENCRYPTION_KEY, ticks>>
    /\ UNCHANGED cbVars
    /\ NoHubCall

\* the older revision: tests only that OAUTH_CONFIGS[selectedService] is
\* truthy and builds the state from user, service and clock
oauth_setup_timestamp(userId, selectedService) ==
    /\ starts < MaxStarts
    /\ starts' = starts + 1
    /\ LET config == ConfigLookup(selectedService)
       IN  IF selectedService = Null \/ ~config.truthy
           THEN UNCHANGED <<kv, issued, sentUrls>>
           ELSE LET state == TimestampState(userId, selectedService, now)
                IN  /\ kv' = storeOAuthState(kv, state,
                                [userId |-> userId, service |-> selectedService,
                                 timestamp |-> now], now)
                    /\ issued' = Append(issued, state)
                    \* new URL(config.authUrl) throws when authUrl is undefined
                    /\ sentUrls' = IF config.authUrl # Null
                                   THEN sentUrls \cup {state} ELSE sentUrls
    /\ UNCHANGED <<now, ENCRYPTION_KEY, rndCount, ticks>>
    /\ UNCHANGED cbVars
    /\ NoHubCall

-----------------------------------------------------------------------------
(* Server registry handlers of the hub *)

saveServerToKV(serverName, serverUrl) ==
    /\ kv' = saveServer(kv, serverName, serverUrl, now)
    /\ UNCHANGED <<now, ENCRYPTION_KEY, ticks>>
    /\ UNCHANGED startVars
    /\ UNCHANGED cbVars
    /\ NoHubCall

deleteServerFromKV(serverName) ==
    /\ kv' = removeServer(kv, serverName, now)
    /\ UNCHANGED <<now, ENCRYPTION_KEY, ticks>>
    /\ UNCHANGED startVars
    /\ UNCHANGED cbVars
    /\ NoHubCall

-----------------------------------------------------------------------------
(* handleOAuthCallback, one step per await *)

Respond(c, status, body) ==
    /\ resp' = [resp EXCEPT ![c] = [status |-> status, body |-> body]]
    /\ pc' = [pc EXCEPT ![c] = "done"]

\* state tokens a request can carry: every token issued so far, and one that
\* was never issued
StateInputs == {issued[i] : i \in DOMAIN issued} \cup {"bogus", Null}

\* a callback with the same state has already ended with the success page
Succeeded(state) ==
    \E d \in Callbacks : resp[d].status = 200 /\ req[d].state = state

\* variant: the two checks in the other order
ParamCheck_codeFirst(code, state, error) ==
    IF code = Null \/ state = Null THEN "Missing code or state parameter"
    ELSE IF error # Null THEN "OAuth error"
    ELSE Null

\* the checks on the query parameters: the body of the 400 response, or Null
\* when the request passes
ParamCheck(code, state, error) ==
    IF error # Null THEN "OAuth error"
    ELSE IF code = Null \/ state = Null THEN "Missing code or state parameter"
    ELSE Null

\* the parameter checks and getOAuthState
cbVerify(c, code, state, error) ==
    /\ pc[c] = "request"
    /\ \A d \in Callbacks : d < c => pc[d] # "request"
    /\ req' = [req EXCEPT ![c] = [code |-> code, state |-> state, error |-> error]]
    /\ afterSuccess' = [afterSuccess EXCEPT ![c] = state # Null /\ Succeeded(state)]
    /\ IF ParamCheck(code, state, error) # Null
       THEN Respond(c, 400, ParamCheck(code, state, error)) /\ UNCHANGED stateData
       ELSE LET found == getOAuthState(kv, state, now)
            IN  IF found = NoStateData
                THEN Respond(c, 400, "Invalid or expired state") /\ UNCHANGED stateData
                ELSE /\ stateData' = [stateData EXCEPT ![c] = found]
                     /\ pc' = [pc EXCEPT ![c] = "exchange"]
                     /\ UNCHANGED resp
    /\ UNCHANGED <<now, ENCRYPTION_KEY, kv, ticks>>
    /\ UNCHANGED startVars
    /\ UNCHANGED <<tokenData, exchange>>
    /\ NoHubCall

\* variant: the status of the response is not looked at
tokenResponseOk_always(r) == TRUE

\* if (!tokenResponse.ok) throw
tokenResponseOk(r) == r.ok

\* the token fetch, the stamp and the encryption; the fetch is a network round
\* trip, so the clock reads later after it than before it
cbExchange(c, r) ==
    /\ pc[c] = "exchange"
    /\ LET config == ConfigLookup(stateData[c].service)
       IN  IF config.tokenUrl = Null
           THEN \* fetch(undefined) rejects
                /\ exchange' = [exchange EXCEPT ![c] = "invalid_url"]
                /\ Respond(c, 500, "OAuth callback error: Invalid URL")
                /\ UNCHANGED <<now, tokenData>>
           ELSE /\ now' = now + 1
                /\ exchange' = [exchange EXCEPT ![c] =
                        IF r.kind = "network_error" THEN "network_error"
                        ELSE IF r.ok THEN "ok" ELSE "http_error"]
                /\ IF r.kind = "network_error"
                   THEN /\ Respond(c, 500, "OAuth callback error: fetch failed")
                        /\ UNCHANGED tokenData
                   ELSE IF ~tokenResponseOk(r)
                   THEN /\ Respond(c, 500, "OAuth callback error: Token exchange failed")
                        /\ UNCHANGED tokenData
                   ELSE /\ tokenData' = [tokenData EXCEPT ![c] =
                                            [r.body EXCEPT !.issued_at = now']]
                        /\ IF ENCRYPTION_KEY = Null
                           THEN Respond(c, 500,
                                    "OAuth callback error: ENCRYPTION_KEY is required")
                           ELSE pc' = [pc EXCEPT ![c] = "store"] /\ UNCHANGED resp
    /\ UNCHANGED <<ENCRYPTION_KEY, kv, ticks>>
    /\ UNCHANGED startVars
    /\ UNCHANGED <<req, stateData, afterSuccess>>
    /\ NoHubCall

\* storeOAuthToken(userId, service, encryptedToken, env)
cbStore(c) ==
    /\ pc[c] = "store"
    /\ kv' = storeOAuthToken(kv, stateData[c].userId, stateData[c].service,
                             encrypt(JSONstringify(tokenData[c]), ENCRYPTION_KEY), now)
    /\ pc' = [pc EXCEPT ![c] = "register"]
    /\ UNCHANGED <<now, ENCRYPTION_KEY, ticks>>
    /\ UNCHANGED startVars
    /\ UNCHANGED <<req, stateData, tokenData, resp, exchange, afterSuccess>>
    /\ NoHubCall

\* config.serverUrl || `https://mcp.${service}.dev/mcp`
DefaultServerUrl(service) ==
    LET config == ConfigLookup(service)
    IN  IF config.serverUrl # Null THEN config.serverUrl
        ELSE "https://mcp." \o service \o ".dev/mcp"

\* loadServers (result dropped) and saveServer(service, serverUrl, env)
cbRegister(c) ==
    /\ pc[c] = "register"
    /\ kv' = saveServer(kv, stateData[c].service,
                        DefaultServerUrl(stateData[c].service), now)
    /\ pc' = [pc EXCEPT ![c] = "cleanup"]
    /\ UNCHANGED <<now, ENCRYPTION_KEY, ticks>>
    /\ UNCHANGED startVars
    /\ UNCHANGED <<req, stateData, tokenData, resp, exchange, afterSuccess>>
    /\ NoHubCall

\* deleteOAuthState(state, env) and the success page
cbCleanup(c) ==
    /\ pc[c] = "cleanup"
    /\ kv' = deleteOAuthState(kv, req[c].state)
    /\ Respond(c, 200, "OAuth Success")
    /\ UNCHANGED <<now, ENCRYPTION_KEY, ticks>>
    /\ UNCHANGED startVars
    /\ UNCHANGED <<req, stateData, tokenData, exchange, afterSuccess>>
    /\ NoHubCall

-----------------------------------------------------------------------------
(* The hub: token resolution, descriptors, tool listing *)

\* token records that can lie under a token key: what a callback stored for
\* the bodies of three providers (expiry by expires_in, no expiry, expiry by
\* expires_at with the token under another name), a 2xx body without a token,
\* a text that is no JSON, and a record encrypted under an earlier passphrase
StoredTokens ==
    { [NoToken EXCEPT !.access_token = "at1", !.refresh_token = "rt1",
                      !.expires_in = 600, !.issued_at = 1],
      [NoToken EXCEPT !.access_token = "at2", !.issued_at = 1],
      [NoToken EXCEPT !.token = "at5", !.refresh_token = "rt1",
                      !.expires_at = 600, !.issued_at = 1],
      [NoToken EXCEPT !.issued_at = 1] }

StoredTokenValues ==
    {encrypt(JSONstringify(td), "pass1") : td \in StoredTokens}
    \cup {encrypt(RawText("hello"), "pass1"),
          encrypt(JSONstringify(CHOOSE td \in StoredTokens : td.access_token = "at1"),
                  "pass2")}

\* the provider table as shipped, and with a refresh endpoint for github
RefreshDeployments ==
    { [s \in allowedServices |-> Null],
      [s \in allowedServices |->
          IF s = "github" THEN "https://github.com/login/oauth/access_token"
          ELSE Null] }

HubInit ==
    /\ now = 1
    /\ ENCRYPTION_KEY \in Passphrases
    /\ \/ kv = [k \in {} |-> Null]
       \/ \E v \in StoredTokenValues :
             kv = storeOAuthToken([k \in {} |-> Null], "U1", "github", v, 1)
    /\ issued = << >>
    /\ sentUrls = {}
    /\ starts = 0
    /\ rndCount = 0
    /\ ticks = 0
    /\ pc = [c \in Callbacks |-> "request"]
    /\ req = [c \in Callbacks |-> NoRequest]
    /\ stateData = [c \in Callbacks |-> NoStateData]
    /\ tokenData = [c \in Callbacks |-> NoToken]
    /\ resp = [c \in Callbacks |-> NoResponse]
    /\ exchange = [c \in Callbacks |-> Null]
    /\ afterSuccess = [c \in Callbacks |-> FALSE]
    /\ refreshUrl \in RefreshDeployments
    /\ call = NoCall
    /\ ret = NoRet
    /\ fetches = 0
    /\ NoRequests
    /\ NoWriters

\* time passes up to, onto or past the lifetime of a token
ElapseSteps == {TickStep - 1, TickStep + 1}

Elapse(d) ==
    /\ ticks < MaxTicks
    /\ now' = now + d
    /\ ticks' = ticks + 1
    /\ UNCHANGED <<ENCRYPTION_KEY, kv>>
    /\ UNCHANGED startVars
    /\ UNCHANGED cbVars
    /\ NoHubCall

\* variant: the key is stored as given, readable without a passphrase
addUserApiKey_plain(userId, serverName, apiKey, encryptionKey) ==
    /\ kv' = storeUserApiKey(kv, userId, serverName,
                             [key |-> Null, plain |-> RawText(apiKey)], now)
    /\ UNCHANGED <<now, ENCRYPTION_KEY, ticks>>
    /\ UNCHANGED startVars
    /\ UNCHANGED cbVars
    /\ NoHubCall

\* McpServerHub.addUserApiKey
addUserApiKey(userId, serverName, apiKey, encryptionKey) ==
    /\ kv' = storeUserApiKey(kv, userId, serverName,
                             encrypt(RawText(apiKey), encryptionKey), now)
    /\ UNCHANGED <<now, ENCRYPTION_KEY, ticks>>
    /\ UNCHANGED startVars
    /\ UNCHANGED cbVars
    /\ NoHubCall

\* a call of getOAuthToken(userId, service, env); r is what the refresh
\* fetch gives, when the call gets to it
GetOAuthTokenCall(userId, service, env, garble) ==
    \E probe \in {getOAuthToken(kv, userId, service, env, now, NoFetch, garble)} :
    \E r \in (IF Fetched(probe) THEN RefreshOutcomes ELSE {NoFetch}) :
    \E g \in {getOAuthToken(kv, userId, service, env, now, r, garble)} :
    LET n == IF Fetched(g) THEN 1 ELSE 0
    IN  /\ fetches + n <= MaxFetches
        /\ kv' = g.store
        /\ now' = g.t
        /\ fetches' = fetches + n
        /\ call' = [op |-> "getOAuthToken", userId |-> userId, service |-> service,
                    encryptionKey |-> Null, env |-> env, requireAuth |-> FALSE]
        /\ ret' = [NoRet EXCEPT !.value = g.value,
                                !.threw = g.threw,
                                !.refresh = g.refresh,
                                !.fetched = n,
                                !.tokenReads = IF env.present
                                               THEN {OAuthTokenKey(userId, service)}
                                               ELSE {}]
        /\ UNCHANGED <<ENCRYPTION_KEY, ticks, refreshUrl>>
        /\ UNCHANGED chatVars
        /\ UNCHANGED writerVars
        /\ UNCHANGED startVars
        /\ UNCHANGED cbVars

\* what the refresh fetches of a call can give, when probe, the same call
\* with no answer from the endpoint, gets to a fetch
FetchChoices(probe) == IF probe.fetched > 0 THEN RefreshOutcomes ELSE {NoFetch}

\* what getTools and disconnect can do, when there is a client
ClientChoices(globalServers, b) ==
    IF DOMAIN globalServers = {} \/ b.threw THEN {"ok"} ELSE ClientOutcomes

\* a call of listAvailTools(userId, encryptionKey, env)
ListAvailToolsCall(userId, encryptionKey, env, garble) ==
    \E globalServers \in {loadServers(kv, now)} :
    \E probe \in {buildServerConfigs(kv, userId, encryptionKey, env, now, NoFetch, garble)} :
        \E r \in FetchChoices(probe) :
        \E b \in {IF r = NoFetch THEN probe
                 ELSE buildServerConfigs(kv, userId, encryptionKey, env, now, r, garble)} :
            \E getTools \in ClientChoices(globalServers, b),
               disconnect \in ClientChoices(globalServers, b) :
            \E l \in {ListResult(globalServers, BuildStart(kv, now), b,
                                getTools, disconnect)} :
                /\ fetches + l.build.fetched <= MaxFetches
                /\ kv' = l.build.store
                /\ now' = l.build.t
                /\ fetches' = fetches + l.build.fetched
                /\ call' = [op |-> "listAvailTools", userId |-> userId,
                            service |-> Null, encryptionKey |-> encryptionKey,
                            env |-> env, requireAuth |-> FALSE]
                /\ ret' = [NoRet EXCEPT !.threw = (l.outcome = "threw"),
                                        !.buildThrew = l.build.threw,
                                        !.servers = l.build.servers,
                                        !.oauth = l.build.oauth,
                                        !.fetched = l.build.fetched,
                                        !.tokenReads = l.build.tokenReads,
                                        !.authReads = l.build.authReads,
                                        !.tools = l.tools,
                                        !.constructed = l.constructed,
                                        !.disconnects = l.disconnects]
                /\ UNCHANGED <<ENCRYPTION_KEY, ticks, refreshUrl>>
                /\ UNCHANGED chatVars
                /\ UNCHANGED writerVars
                /\ UNCHANGED startVars
                /\ UNCHANGED cbVars

HubEnvs == {NoEnv, EnvOf(ENCRYPTION_KEY)}

HubNext ==
    \/ \E d \in ElapseSteps : Elapse(d)
    \/ \E i \in HubServerInputs : saveServerToKV(i[1], i[2])
    \/ \E n \in ApiKeyNames, k \in ApiKeys : addUserApiKey("U1", n, k, ENCRYPTION_KEY)
    \/ \E u \in HubUsers, svc \in HubServices, env \in HubEnvs, g \in Garbles :
          GetOAuthTokenCall(u, svc, env, g)
    \/ \E u \in HubUsers, p \in HubPassphrases \cup {Null}, env \in HubEnvs,
          g \in Garbles : ListAvailToolsCall(u, p, env, g)

HubSpec == HubInit /\ [][HubNext]_vars

-----------------------------------------------------------------------------
Next ==
    \/ Tick
    \/ \E i \in StartInputs : oauth_setup(i[1], i[2])
    \/ \E i \in StartInputs : oauth_setup_timestamp(i[1], i[2])
    \/ \E n \in ServerNameInputs, u \in ServerUrlInputs : saveServerToKV(n, u)
    \/ \E n \in ServerNameInputs : deleteServerFromKV(n)
    \/ \E c \in Callbacks, code \in Codes \cup {Null}, state \in StateInputs,
          error \in {Null, "access_denied"} : cbVerify(c, code, state, error)
    \/ \E c \in Callbacks : \E r \in FetchOutcomes : cbExchange(c, r)
    \/ \E c \in Callbacks : cbStore(c)
    \/ \E c \in Callbacks : cbRegister(c)
    \/ \E c \in Callbacks : cbCleanup(c)

Spec == Init /\ [][Next]_vars

TypeOK ==
    /\ now \in Nat
    /\ \A c \in Callbacks :
          pc[c] \in {"request", "exchange", "store", "register", "cleanup", "done"}

-----------------------------------------------------------------------------
(* Conversation history *)

HistoryLimit == 20

ConversationKey(threadId) == "conversation:" \o threadId

\* JSON.stringify({ messages, lastUpdated: Date.now(), messageCount })
ConversationText(messages, t) ==
    [kind |-> "json", hasMessages |-> TRUE, messages |-> messages,
     lastUpdated |-> t, messageCount |-> Len(messages)]

\* no value under the key
NoConversation ==
    [kind |-> "absent", hasMessages |-> FALSE, messages |-> << >>,
     lastUpdated |-> 0, messageCount |-> 0]

\* texts that saveConversationHistory never writes: a text that is no JSON,
\* the JSON text null, and a JSON object without messages
CorruptConversations ==
    {[NoConversation EXCEPT !.kind = k] : k \in {"raw", "null", "json"}}

saveConversationHistory(store, threadId, messages, t) ==
    KVPut(store, ConversationKey(threadId), ConversationText(messages, t), 0, t)

\* the body of the try: JSON.parse(data) throws on a text that is no JSON,
\* parsed.messages throws on null; parsed.messages ?? []
ParseConversation(data) ==
    [threw |-> data.kind \in {"raw", "null"},
     messages |-> IF data.kind = "json" /\ data.hasMessages THEN data.messages
                  ELSE << >>]

\* variant: without the catch
catchReturnEmpty_rethrow(res) == res

\* catch { return [] }
catchReturnEmpty(res) ==
    IF res.threw THEN [threw |-> FALSE, messages |-> << >>] ELSE res

\* loadConversationHistory: the messages, or that it threw
loadConversationHistory(store, threadId, t) ==
    LET data == KVGet(store, ConversationKey(threadId), t, NoConversation)
    IN  IF data.kind = "absent" THEN [threw |-> FALSE, messages |-> << >>]
        ELSE catchReturnEmpty(ParseConversation(data))

\* variant: the list is not cut
PushAndTrim_noTrim(messages, role, content) ==
    Append(messages, [role |-> role, content |-> content])

\* messages.push({ role, content }) and the splice that keeps the last 20
PushAndTrim(messages, role, content) ==
    LET pushed == Append(messages, [role |-> role, content |-> content])
    IN  IF Len(pushed) > HistoryLimit
        THEN SubSeq(pushed, Len(pushed) - HistoryLimit + 1, Len(pushed))
        ELSE pushed

\* addMessageToHistory run without interruption: the store after it, or that
\* it threw
addMessageToHistory(store, threadId, role, content, t) ==
    LET l == loadConversationHistory(store, threadId, t)
    IN  IF l.threw THEN [threw |-> TRUE, store |-> store]
        ELSE [threw |-> FALSE,
              store |-> saveConversationHistory(store, threadId,
                            PushAndTrim(l.messages, role, content), t)]

-----------------------------------------------------------------------------
(* Requests to the hub: listAvailTools, createAgentWithMCPTools and the     *)
(* message handler of registerLaunchActions, one step per await             *)

RequestKinds == {"list", "agent", "message"}

\* one call on the MCPClient of a request
ClientCall(name, outcome) == [call |-> name, outcome |-> outcome, servers |-> {}]

\* new MCPClient({ id, servers })
NewClient(servers) == [call |-> "new", outcome |-> "ok", servers |-> servers]

\* new MCPClient(...) was evaluated for the request
Constructed(r) == clog[r] # << >>

\* where a request goes when createAgentWithMCPTools has returned / has thrown
AfterReturn(kind) == IF kind = "message" THEN "generate" ELSE "ready"
AfterThrow(kind) == IF kind = "message" THEN "sorry" ELSE "done"

ChatFrame ==
    /\ UNCHANGED <<ENCRYPTION_KEY, ticks>>
    /\ UNCHANGED startVars
    /\ UNCHANGED cbVars
    /\ UNCHANGED writerVars
    /\ HubIdle

\* variant: no test for an empty registry
EmptyRegistryTest_none(globalServers) == FALSE

\* Object.keys(globalServers).length === 0
EmptyRegistryTest(globalServers) == DOMAIN globalServers = {}

\* listAvailTools and createAgentWithMCPTools up to new MCPClient: the
\* registry, the test for an empty one, buildServerConfigs and the client
HubStart(r, kind, userId, encryptionKey) ==
    /\ hpc[r] = "idle"
    /\ hkind' = [hkind EXCEPT ![r] = kind]
    /\ \E globalServers \in {loadServers(kv, now)} :
       \E b \in {buildServerConfigs(kv, userId, encryptionKey, NoEnv, now,
                                    NoFetch, "empty")} :
          IF EmptyRegistryTest(globalServers)
          THEN /\ hret' = [hret EXCEPT ![r].outcome = "returned"]
               /\ hpc' = [hpc EXCEPT ![r] = IF kind = "list" THEN "done"
                                            ELSE AfterReturn(kind)]
               /\ UNCHANGED <<kv, now, clog>>
          ELSE IF b.threw
          THEN /\ hret' = [hret EXCEPT ![r].outcome = "threw", ![r].error = "build"]
               /\ hpc' = [hpc EXCEPT ![r] = AfterThrow(kind)]
               /\ kv' = b.store
               /\ now' = b.t
               /\ UNCHANGED clog
          ELSE /\ clog' = [clog EXCEPT ![r] = <<NewClient(DOMAIN b.servers)>>]
               /\ hpc' = [hpc EXCEPT ![r] = "getTools"]
               /\ kv' = b.store
               /\ now' = b.t
               /\ UNCHANGED hret
    /\ ChatFrame

\* the servers the client of the request was made for
ClientServers(r) == clog[r][1].servers

\* listAvailTools: await mcpClient.getTools() in the try
ListGetTools(r, getTools) ==
    /\ hkind[r] = "list"
    /\ hpc[r] = "getTools"
    /\ clog' = [clog EXCEPT ![r] = Append(@, ClientCall("getTools", getTools))]
    /\ hret' = [hret EXCEPT
                  ![r].error = IF getTools = "throws" THEN "getTools" ELSE Null,
                  ![r].tools = IF getTools = "ok"
                               THEN {n \o "_tool" : n \in ClientServers(r)} ELSE {}]
    /\ hpc' = [hpc EXCEPT ![r] = "finally"]
    /\ UNCHANGED <<kv, now, hkind>>
    /\ ChatFrame

\* variant: the error of disconnect leaves the finally block
SwallowDisconnectError_no(error, disconnect) ==
    IF disconnect = "throws" THEN "disconnect" ELSE error

\* try { await mcpClient.disconnect() } catch { console.error }: the error
\* the function ends with is the one it had
SwallowDisconnectError(error, disconnect) == error

\* listAvailTools: the finally block, then the return or the rethrow
ListFinally(r, disconnect) ==
    /\ hkind[r] = "list"
    /\ hpc[r] = "finally"
    /\ clog' = [clog EXCEPT ![r] = Append(@, ClientCall("disconnect", disconnect))]
    /\ \E error \in {SwallowDisconnectError(hret[r].error, disconnect)} :
          hret' = [hret EXCEPT
                     ![r].error = error,
                     ![r].outcome = IF error = Null THEN "returned" ELSE "threw",
                     ![r].tools = IF error = Null THEN @ ELSE {}]
    /\ hpc' = [hpc EXCEPT ![r] = "done"]
    /\ UNCHANGED <<kv, now, hkind>>
    /\ ChatFrame

\* createAgentWithMCPTools: await mcpClient.getTools() and new Agent(...) in
\* the try; the return with the cleanup closure, or on to the catch
AgentSetup(r, getTools, agent) ==
    /\ hkind[r] \in {"agent", "message"}
    /\ hpc[r] = "getTools"
    /\ clog' = [clog EXCEPT ![r] = Append(@, ClientCall("getTools", getTools))]
    /\ IF getTools = "ok" /\ agent = "ok"
       THEN /\ hret' = [hret EXCEPT
                          ![r].outcome = "returned",
                          ![r].tools = {n \o "_tool" : n \in ClientServers(r)}]
            /\ hpc' = [hpc EXCEPT ![r] = AfterReturn(hkind[r])]
       ELSE /\ hret' = [hret EXCEPT
                          ![r].error = IF getTools = "throws" THEN "getTools"
                                       ELSE "Agent"]
            /\ hpc' = [hpc EXCEPT ![r] = "failed"]
    /\ UNCHANGED <<kv, now, hkind>>
    /\ ChatFrame

\* variant: the catch rethrows at once
DisconnectInCatch_none(log, disconnect) == log

\* the catch of createAgentWithMCPTools: await mcpClient.disconnect()
DisconnectInCatch(log, disconnect) == Append(log, ClientCall("disconnect", disconnect))

\* createAgentWithMCPTools: the catch, then throw error
AgentFailed(r, disconnect) ==
    /\ hpc[r] = "failed"
    /\ clog' = [clog EXCEPT ![r] = DisconnectInCatch(@, disconnect)]
    /\ hret' = [hret EXCEPT
                  ![r].outcome = "threw",
                  ![r].error = SwallowDisconnectError(@, disconnect)]
    /\ hpc' = [hpc EXCEPT ![r] = AfterThrow(hkind[r])]
    /\ UNCHANGED <<kv, now, hkind>>
    /\ ChatFrame

\* the cleanup closure that createAgentWithMCPTools returned: disconnect of
\* its client, nothing when there is none
CleanupLog(r, disconnect) ==
    IF Constructed(r) THEN Append(clog[r], ClientCall("disconnect", disconnect))
    ELSE clog[r]

\* what a call of cleanup can do: nothing but return when there is no client
CleanupChoices(r) == IF Constructed(r) THEN ClientOutcomes ELSE {"ok"}

\* a caller of createAgentWithMCPTools calls cleanup
Cleanup(r, disconnect) ==
    /\ hkind[r] = "agent"
    /\ hpc[r] = "ready"
    /\ hret[r].cleanups < MaxCleanups
    /\ clog' = [clog EXCEPT ![r] = CleanupLog(r, disconnect)]
    /\ hret' = [hret EXCEPT ![r].cleanups = @ + 1]
    /\ UNCHANGED <<kv, now, hkind, hpc>>
    /\ ChatFrame

\* the message handler: await agent.generate(cleanMessage)
Generate(r, generate) ==
    /\ hkind[r] = "message"
    /\ hpc[r] = "generate"
    /\ IF generate = "ok"
       THEN /\ hpc' = [hpc EXCEPT ![r] = "cleanup"]
            /\ UNCHANGED hret
       ELSE /\ hpc' = [hpc EXCEPT ![r] = "sorry"]
            /\ hret' = [hret EXCEPT ![r].error = "generate"]
    /\ UNCHANGED <<kv, now, hkind, clog>>
    /\ ChatFrame

\* the message handler: await cleanup()
MessageCleanup(r, disconnect) ==
    /\ hkind[r] = "message"
    /\ hpc[r] = "cleanup"
    /\ clog' = [clog EXCEPT ![r] = CleanupLog(r, disconnect)]
    /\ hret' = [hret EXCEPT
                  ![r].cleanups = @ + 1,
                  ![r].error = IF disconnect = "throws" THEN "cleanup" ELSE @]
    /\ hpc' = [hpc EXCEPT ![r] = IF disconnect = "throws" THEN "sorry" ELSE "history"]
    /\ UNCHANGED <<kv, now, hkind>>
    /\ ChatFrame

\* the thread of the messages, and the texts of message r and of its answer
ChatThread == "T1"
UserText(r) == 2 * r - 1
AnswerText(r) == 2 * r

\* the message handler: the two addMessageToHistory calls; put is what the
\* puts of the store do
MessageHistory(r, put) ==
    /\ hkind[r] = "message"
    /\ hpc[r] = "history"
    /\ IF put = "ok"
       THEN /\ kv' = addMessageToHistory(
                        addMessageToHistory(kv, ChatThread, "user", UserText(r),
                                            now).store,
                        ChatThread, "assistant", AnswerText(r), now).store
            /\ hpc' = [hpc EXCEPT ![r] = "say"]
            /\ UNCHANGED hret
       ELSE /\ hpc' = [hpc EXCEPT ![r] = "sorry"]
            /\ hret' = [hret EXCEPT ![r].error = "history"]
            /\ UNCHANGED kv
    /\ UNCHANGED <<now, hkind, clog>>
    /\ ChatFrame

\* the message handler: say({ text: response.text }), or in the catch
\* say({ text: `Sorry, I encountered an error: ...` })
MessageSay(r) ==
    /\ hkind[r] = "message"
    /\ hpc[r] \in {"say", "sorry"}
    /\ hret' = [hret EXCEPT ![r].said = IF hpc[r] = "say" THEN "answer" ELSE "sorry"]
    /\ hpc' = [hpc EXCEPT ![r] = "done"]
    /\ UNCHANGED <<kv, now, hkind, clog>>
    /\ ChatFrame

ChatNext ==
    \/ \E i \in ChatServerInputs : saveServerToKV(i[1], i[2])
    \/ \E r \in Requests, kind \in RequestKinds :
          HubStart(r, kind, "U1", ENCRYPTION_KEY)
    \/ \E r \in Requests, o \in ClientOutcomes : ListGetTools(r, o)
    \/ \E r \in Requests, o \in ClientOutcomes : ListFinally(r, o)
    \/ \E r \in Requests, g \in ClientOutcomes, a \in ClientOutcomes :
          AgentSetup(r, g, a)
    \/ \E r \in Requests, o \in ClientOutcomes : AgentFailed(r, o)
    \/ \E r \in Requests : \E o \in CleanupChoices(r) : Cleanup(r, o)
    \/ \E r \in Requests, o \in ClientOutcomes : Generate(r, o)
    \/ \E r \in Requests : \E o \in CleanupChoices(r) : MessageCleanup(r, o)
    \/ \E r \in Requests, o \in ClientOutcomes : MessageHistory(r, o)
    \/ \E r \in Requests : MessageSay(r)

ChatSpec == Init /\ [][ChatNext]_vars

-----------------------------------------------------------------------------
(* Calls that rewrite one document of the store: addMessageToHistory,       *)
(* saveServer, removeServer, and addServer / removeServer of the API        *)
(* worker; a step for the load and a step for the put                       *)

RegistryOps == {"saveServer", "removeServer", "addServer", "apiRemoveServer"}

\* the calls between their load and their put
InFlight == {w \in Writers : wpc[w] = "loaded"}

\* the number of calls begun so far
Begun == puts + Cardinality(InFlight)

WriterFrame ==
    /\ UNCHANGED <<now, ENCRYPTION_KEY, ticks>>
    /\ UNCHANGED startVars
    /\ UNCHANGED cbVars
    /\ UNCHANGED chatVars
    /\ HubIdle

\* what the call reads before it writes
LoadFor(c) ==
    IF c.op = "addMessageToHistory"
    THEN LET l == loadConversationHistory(kv, c.threadId, now)
         IN  [threw |-> l.threw,
              doc |-> [NoLoaded EXCEPT !.messages = l.messages]]
    ELSE [threw |-> FALSE, doc |-> [NoLoaded EXCEPT !.servers = loadServers(kv, now)]]

\* the load of call c by writer w, at most max puts in all; a load that
\* throws ends the call
WriterLoad(w, c, max) ==
    /\ wpc[w] = "idle"
    /\ Begun < max
    /\ InFlight # {} => overlaps < MaxOverlaps
    /\ overlaps' = IF InFlight # {} THEN overlaps + 1 ELSE overlaps
    /\ \E l \in {LoadFor(c)} :
          IF l.threw
          THEN /\ wdone' = [wdone EXCEPT ![w] = [call |-> c, loaded |-> NoLoaded,
                                                 seq |-> 0, threw |-> TRUE]]
               /\ UNCHANGED <<wpc, wcall, wloaded>>
          ELSE /\ wpc' = [wpc EXCEPT ![w] = "loaded"]
               /\ wcall' = [wcall EXCEPT ![w] = c]
               /\ wloaded' = [wloaded EXCEPT ![w] = l.doc]
               /\ UNCHANGED wdone
    /\ UNCHANGED <<kv, puts, appended>>
    /\ WriterFrame

\* variant: the call pushes onto the list that is stored when it writes
MessagesToPush_stored(loaded, store, threadId, t) ==
    loadConversationHistory(store, threadId, t).messages

\* addMessageToHistory pushes onto the list it loaded
MessagesToPush(loaded, store, threadId, t) == loaded.messages

\* variant: the call changes the document that is stored when it writes
ServersToMutate_stored(loaded, store, t) == loadServers(store, t)

\* saveServer, removeServer, addServer change the document they loaded
ServersToMutate(loaded, store, t) == loaded.servers

\* the store after the put of call c on the document it loaded
PutFor(c, loaded) ==
    CASE c.op = "addMessageToHistory" ->
            saveConversationHistory(kv, c.threadId,
                PushAndTrim(MessagesToPush(loaded, kv, c.threadId, now),
                            c.role, c.content), now)
      [] c.op = "saveServer" ->
            saveServerPut(kv, ServersToMutate(loaded, kv, now), c.name, c.url, now)
      [] c.op = "removeServer" ->
            removeServerPut(kv, ServersToMutate(loaded, kv, now), c.name, now)
      [] c.op = "addServer" ->
            addServerPut(kv, ServersToMutate(loaded, kv, now), c.name, c.url, now)
      [] OTHER ->
            apiRemoveServerPut(kv, ServersToMutate(loaded, kv, now), c.name, now)

\* the put of the call of writer w
WriterPut(w) ==
    /\ wpc[w] = "loaded"
    /\ kv' = PutFor(wcall[w], wloaded[w])
    /\ puts' = puts + 1
    /\ wdone' = [wdone EXCEPT ![w] = [call |-> wcall[w], loaded |-> wloaded[w],
                                      seq |-> puts + 1, threw |-> FALSE]]
    /\ wpc' = [wpc EXCEPT ![w] = "idle"]
    /\ appended' = IF wcall[w].op = "addMessageToHistory"
                   THEN Append(appended, [role |-> wcall[w].role,
                                          content |-> wcall[w].content])
                   ELSE appended
    /\ UNCHANGED <<wcall, wloaded, overlaps>>
    /\ WriterFrame

\* the next addMessageToHistory call of the message handlers: the messages
\* are numbered, a user message and the answer to it in turn
HistoryThread == "T1"
NextMessage ==
    [NoWriterCall EXCEPT !.op = "addMessageToHistory",
                         !.threadId = HistoryThread,
                         !.role = IF Begun % 2 = 0 THEN "user" ELSE "assistant",
                         !.content = Begun + 1]

\* a thread with nothing stored, or with a value that
\* saveConversationHistory did not write
HistoryInit ==
    /\ now = 1
    /\ ENCRYPTION_KEY \in Passphrases
    /\ \/ kv = [k \in {} |-> Null]
       \/ \E v \in CorruptConversations :
             kv = KVPut([k \in {} |-> Null], ConversationKey(HistoryThread), v, 0, 1)
    /\ issued = << >>
    /\ sentUrls = {}
    /\ starts = 0
    /\ rndCount = 0
    /\ ticks = 0
    /\ pc = [c \in Callbacks |-> "request"]
    /\ req = [c \in Callbacks |-> NoRequest]
    /\ stateData = [c \in Callbacks |-> NoStateData]
    /\ tokenData = [c \in Callbacks |-> NoToken]
    /\ resp = [c \in Callbacks |-> NoResponse]
    /\ exchange = [c \in Callbacks |-> Null]
    /\ afterSuccess = [c \in Callbacks |-> FALSE]
    /\ refreshUrl = [s \in allowedServices |-> Null]
    /\ call = NoCall
    /\ ret = NoRet
    /\ fetches = 0
    /\ NoRequests
    /\ NoWriters

HistoryNext ==
    \/ \E w \in Writers : WriterLoad(w, NextMessage, MaxPuts)
    \/ \E w \in Writers : WriterPut(w)

HistorySpec == HistoryInit /\ [][HistoryNext]_vars

SaveCall(op, name, url) == [NoWriterCall EXCEPT !.op = op, !.name = name, !.url = url]
RemoveCall(op, name) == [NoWriterCall EXCEPT !.op = op, !.name = name]

\* the registry calls of the handlers: the add-server and remove-server forms,
\* the saveServer of handleOAuthCallback, and the two routes of the API worker
RegistryCalls ==
    { SaveCall("saveServer", "GitHub", "https://x.test/mcp"),
      SaveCall("saveServer", "github", DefaultServerUrl("github")),
      SaveCall("saveServer", "Notion", "https://x.test/mcp"),
      RemoveCall("removeServer", "GitHub"),
      RemoveCall("removeServer", "notion"),
      SaveCall("addServer", "GitHub", "https://x.test/mcp"),
      SaveCall("saveServer", "Notion", "https://X.test/MCP"),
      SaveCall("addServer", "Notion", "https://X.test/MCP"),
      RemoveCall("apiRemoveServer", "GitHub"),
      RemoveCall("apiRemoveServer", "github") }

RegistryNext ==
    \/ \E w \in Writers, c \in RegistryCalls : WriterLoad(w, c, MaxRegistryPuts)
    \/ \E w \in Writers : WriterPut(w)

RegistrySpec == Init /\ [][RegistryNext]_vars

-----------------------------------------------------------------------------
(* Credential records and the view of the servers a user can reach *)

\* storeAuth: JSON.stringify(authData) under auth:userId:serviceName
storeAuth(store, authData, t) ==
    KVPut(store, AuthKey(authData.userId, authData.serviceName), authData, 0, t)

\* hasAuth of one pass of the loop of getAccessibleServersForUser: without a
\* passphrase true; with one, an OAuth token or apiKey !== undefined
HasAuth(encryptionKey, oauthToken, found) ==
    IF encryptionKey = Null THEN TRUE
    ELSE oauthToken # Null \/ found.kind # "undefined"

\* the result of getAccessibleServersForUser before the loop
AccessStart(store, t) ==
    [store |-> store, t |-> t, threw |-> FALSE, list |-> << >>, fetched |-> 0]

\* one pass of the loop of getAccessibleServersForUser; a throw ends the
\* function
AccessOne(acc, userId, encryptionKey, env, requireAuth, serverName, serverUrl, r, garble) ==
    LET capable == encryptionKey # Null /\ toLowerCase(serverName) \in OAUTH_SERVICES
        g == getOAuthToken(acc.store, userId, serverName, env, acc.t, r, garble)
        oauthToken == IF capable THEN g.value ELSE Null
        store == IF capable THEN g.store ELSE acc.store
        t == IF capable THEN g.t ELSE acc.t
        lookup == encryptionKey # Null /\ oauthToken = Null
        found == IF lookup
                 THEN findUserApiKey(store, userId, serverName, encryptionKey, t, garble)
                 ELSE UndefinedText
        hasAuth == HasAuth(encryptionKey, oauthToken, found)
        after == [acc EXCEPT !.store = store,
                             !.t = t,
                             !.fetched = IF capable /\ Fetched(g) THEN @ + 1 ELSE @]
    IN  IF acc.threw THEN acc
        ELSE IF capable /\ g.threw THEN [acc EXCEPT !.threw = TRUE]
        ELSE IF found.kind = "throws" THEN [after EXCEPT !.threw = TRUE]
        ELSE IF ~requireAuth \/ hasAuth
        THEN [after EXCEPT !.list = Append(@, [name |-> serverName, url |-> serverUrl,
                                               hasAuth |-> hasAuth])]
        ELSE after

RECURSIVE AccessLoop(_, _, _, _, _, _, _, _, _)
AccessLoop(acc, userId, encryptionKey, env, requireAuth, globalServers, entries, r, garble) ==
    IF entries = << >> THEN acc
    ELSE AccessLoop(AccessOne(acc, userId, encryptionKey, env, requireAuth,
                              Head(entries), globalServers[Head(entries)], r, garble),
                    userId, encryptionKey, env, requireAuth, globalServers,
                    Tail(entries), r, garble)

\* getAccessibleServersForUser: the list (or a throw), and the store and the
\* clock after the call
getAccessibleServersForUser(store, userId, encryptionKey, env, requireAuth, t, r, garble) ==
    LET globalServers == loadServers(store, t)
    IN  AccessLoop(AccessStart(store, t), userId, encryptionKey, env, requireAuth,
                   globalServers, Entries(DOMAIN globalServers), r, garble)

\* the store holds at most this many keys
MaxRecords == 3

\* what the forms and the hub are given
AccessUsers == {"U1", "U2"}
AccessServerNames == {"Notion", "notion"}
AccessServerUrl == "https://x.test/mcp"
AccessApiKeys == {"key1", "key2"}
CallbackToken == [NoToken EXCEPT !.access_token = "at6"]

Bounded == Cardinality(DOMAIN kv') <= MaxRecords

\* a step of a form handler
FormFrame ==
    /\ UNCHANGED <<now, ENCRYPTION_KEY, ticks>>
    /\ UNCHANGED startVars
    /\ UNCHANGED cbVars
    /\ NoHubCall

\* the auth_modal view handler: storeAuth with the key encrypted, or null
\* when the field is empty
auth_modal(userId, serviceName, apiKey) ==
    /\ kv' = storeAuth(kv, [userId |-> userId,
                            serviceName |-> serviceName,
                            apiKey |-> IF apiKey # Null
                                       THEN encrypt(RawText(apiKey), ENCRYPTION_KEY)
                                       ELSE NoCiphertext,
                            createdAt |-> now], now)
    /\ FormFrame

\* the add_server view handler: addServerGlobally, then storeUserApiKey
\* when an API key was typed
add_server(userId, serverName, serverUrl, apiKey) ==
    /\ \E saved \in {saveServer(kv, serverName, serverUrl, now)} :
          kv' = IF apiKey # Null
                THEN storeUserApiKey(saved, userId, serverName,
                                     encrypt(RawText(apiKey), ENCRYPTION_KEY), now)
                ELSE saved
    /\ FormFrame

\* the writes of a handleOAuthCallback that got a token from the provider:
\* the token stamped with issued_at, storeOAuthToken with it encrypted, then
\* saveServer
handleOAuthCallbackWrites(userId, service, td) ==
    /\ kv' = saveServer(storeOAuthToken(kv, userId, service,
                            encrypt(JSONstringify([td EXCEPT !.issued_at = now]),
                                    ENCRYPTION_KEY), now),
                        service, DefaultServerUrl(service), now)
    /\ FormFrame

\* what the refresh fetches of the view can give, when probe, the same call
\* with no answer from the endpoint, gets to a fetch
AccessFetchChoices(probe) == IF probe.fetched > 0 THEN RefreshOutcomes ELSE {NoFetch}

\* a call of getAccessibleServersForUser(userId, encryptionKey, requireAuth)
\* of the hub, whose env holds the store and the passphrase
GetAccessibleServersCall(userId, encryptionKey, requireAuth, garble) ==
    \E env \in {EnvOf(ENCRYPTION_KEY)} :
    \E probe \in {getAccessibleServersForUser(kv, userId, encryptionKey, env,
                                              requireAuth, now, NoFetch, garble)} :
    \E r \in AccessFetchChoices(probe) :
    \E a \in {IF r = NoFetch THEN probe
             ELSE getAccessibleServersForUser(kv, userId, encryptionKey, env,
                                              requireAuth, now, r, garble)} :
        /\ fetches + a.fetched <= MaxFetches
        /\ kv' = a.store
        /\ now' = a.t
        /\ fetches' = fetches + a.fetched
        /\ call' = [op |-> "getAccessibleServersForUser", userId |-> userId,
                    service |-> Null, encryptionKey |-> encryptionKey,
                    env |-> env, requireAuth |-> requireAuth]
        /\ ret' = [NoRet EXCEPT !.threw = a.threw,
                                !.accessible = a.list,
                                !.fetched = a.fetched,
                                !.garble = garble]
        /\ UNCHANGED <<ENCRYPTION_KEY, ticks, refreshUrl>>
        /\ UNCHANGED chatVars
        /\ UNCHANGED writerVars
        /\ UNCHANGED startVars
        /\ UNCHANGED cbVars

\* the passphrases a caller of the view passes, and what a foreign key gives
AccessPassphrases == {<<"pass1", "empty">>, <<Null, "empty">>} \cup
                     {<<"pass2", g>> : g \in Garbles}

AccessNext ==
    \/ \E d \in ElapseSteps : Elapse(d)
    \/ \E n \in AccessServerNames : saveServerToKV(n, AccessServerUrl) /\ Bounded
    \/ \E n \in AccessServerNames : deleteServerFromKV(n)
    \/ \E n \in AccessServerNames, k \in AccessApiKeys :
          addUserApiKey("U1", n, k, ENCRYPTION_KEY) /\ Bounded
    \/ \E u \in AccessUsers, k \in {"key1", Null} : auth_modal(u, "notion", k) /\ Bounded
    \/ \E k \in {"key2", Null} :
          add_server("U2", "Notion", AccessServerUrl, k) /\ Bounded
    \/ \E u \in AccessUsers :
          handleOAuthCallbackWrites(u, "github", CallbackToken) /\ Bounded
    \/ \E u \in AccessUsers, p \in AccessPassphrases, ra \in BOOLEAN :
          GetAccessibleServersCall(u, p[1], ra, p[2])

\* the token of an earlier flow, with a lifetime and a refresh token
EarlierToken ==
    [NoToken EXCEPT !.access_token = "at1", !.refresh_token = "rt1",
                    !.expires_in = 600, !.issued_at = 1]

\* an empty store, or the token of an earlier flow of U1 in it
AccessInit ==
    /\ now = 1
    /\ ENCRYPTION_KEY \in Passphrases
    /\ \/ kv = [k \in {} |-> Null]
       \/ kv = storeOAuthToken([k \in {} |-> Null], "U1", "github",
                               encrypt(JSONstringify(EarlierToken), "pass1"), 1)
    /\ issued = << >>
    /\ sentUrls = {}
    /\ starts = 0
    /\ rndCount = 0
    /\ ticks = 0
    /\ pc = [c \in Callbacks |-> "request"]
    /\ req = [c \in Callbacks |-> NoRequest]
    /\ stateData = [c \in Callbacks |-> NoStateData]
    /\ tokenData = [c \in Callbacks |-> NoToken]
    /\ resp = [c \in Callbacks |-> NoResponse]
    /\ exchange = [c \in Callbacks |-> Null]
    /\ afterSuccess = [c \in Callbacks |-> FALSE]
    /\ refreshUrl \in RefreshDeployments
    /\ call = NoCall
    /\ ret = NoRet
    /\ fetches = 0
    /\ NoRequests
    /\ NoWriters

AccessSpec == AccessInit /\ [][AccessNext]_vars

-----------------------------------------------------------------------------
(* The message handler and the show_tools handler, one step per handler *)

\* an optional array argument: not given, or the array
Undefined == [given |-> FALSE, messages |-> << >>]
Given(messages) == [given |-> TRUE, messages |-> messages]

\* conversationHistory ?? []
OrEmpty(conversationHistory) ==
    IF conversationHistory.given THEN conversationHistory.messages ELSE << >>

\* an array where an Env is expected: env['SNACK-KV'] and env.ENCRYPTION_KEY
\* are undefined
ArrayAsEnv(messages) == [present |-> FALSE, ENCRYPTION_KEY |-> Null]

\* lines.join('\n')
RECURSIVE Join(_)
Join(lines) ==
    IF lines = << >> THEN ""
    ELSE IF Len(lines) = 1 THEN lines[1]
    ELSE lines[1] \o "\n" \o Join(Tail(lines))

\* buildConversationContext: '' for no messages, else the header, one
\* "role: content" line per message and an empty line
buildConversationContext(conversationHistory) ==
    IF Len(conversationHistory) = 0 THEN ""
    ELSE "Previous conversation:\n"
         \o Join([i \in DOMAIN conversationHistory |->
                     conversationHistory[i].role \o ": " \o conversationHistory[i].content])
         \o "\n\n"

\* createAgentWithMCPTools(userId, encryptionKey, conversationHistory, env):
\* the instructions of the agent and the descriptors of its client, or a
\* throw; getTools is what mcpClient.getTools() does
createAgentWithMCPTools(store, userId, encryptionKey, conversationHistory, env, t, getTools) ==
    LET globalServers == loadServers(store, t)
        contextInstructions == buildConversationContext(OrEmpty(conversationHistory))
        b == buildServerConfigs(store, userId, encryptionKey, env, t, NoFetch, "empty")
    IN  IF EmptyRegistryTest(globalServers)
        THEN [threw |-> FALSE, instructions |-> contextInstructions,
              build |-> BuildStart(store, t)]
        ELSE IF b.threw \/ getTools = "throws"
        THEN [threw |-> TRUE, instructions |-> "", build |-> b]
        ELSE [threw |-> FALSE, instructions |-> contextInstructions, build |-> b]

\* the arguments the message handler passes after userId and
\* env.ENCRYPTION_KEY: undefined, then the history it loaded
HandlerArguments(history) ==
    [conversationHistory |-> Undefined, env |-> ArrayAsEnv(history)]

\* how many messages one run sends, and what they say
MaxChats == 2
ChatTexts == {"hi", "bye"}
AnswerTo(text) == "re " \o text

\* the message handler of registerLaunchActions for a message of userId in
\* the thread: loadConversationHistory, createAgentWithMCPTools,
\* agent.generate, cleanup, the two addMessageToHistory and say; or the
\* catch and its say
MessageCall(userId, text, getTools, generate) ==
    \E history \in {loadConversationHistory(kv, ChatThread, now).messages} :
    \E args \in {HandlerArguments(history)} :
    \E a \in {createAgentWithMCPTools(kv, userId, ENCRYPTION_KEY,
                                      args.conversationHistory, args.env, now,
                                      getTools)} :
        /\ Len(history) < 2 * MaxChats
        /\ kv' = IF a.threw \/ generate = "throws" THEN a.build.store
                 ELSE addMessageToHistory(
                          addMessageToHistory(a.build.store, ChatThread, "user", text,
                                              now).store,
                          ChatThread, "assistant", AnswerTo(text), now).store
        /\ now' = a.build.t
        /\ call' = [op |-> "message", userId |-> userId, service |-> Null,
                    encryptionKey |-> ENCRYPTION_KEY, env |-> args.env,
                    requireAuth |-> FALSE]
        /\ ret' = [NoRet EXCEPT !.threw = a.threw,
                                !.buildThrew = a.build.threw,
                                !.servers = a.build.servers,
                                !.oauth = a.build.oauth,
                                !.tokenReads = a.build.tokenReads,
                                !.authReads = a.build.authReads,
                                !.history = history,
                                !.instructions = a.instructions,
                                !.said = IF a.threw \/ generate = "throws"
                                         THEN "sorry" ELSE AnswerTo(text)]
        /\ UNCHANGED <<ENCRYPTION_KEY, ticks, refreshUrl, fetches>>
        /\ UNCHANGED chatVars
        /\ UNCHANGED writerVars
        /\ UNCHANGED startVars
        /\ UNCHANGED cbVars

SessionNext ==
    \/ \E u \in AccessUsers : handleOAuthCallbackWrites(u, "github", CallbackToken)
    \/ \E n \in {"notion"}, k \in {"key1"} : add_server("U1", n, AccessServerUrl, k)
    \/ \E u \in AccessUsers, text \in ChatTexts, g \in ClientOutcomes,
          a \in ClientOutcomes : MessageCall(u, text, g, a)
    \/ \E u \in AccessUsers :
          ListAvailToolsCall(u, ENCRYPTION_KEY, EnvOf(ENCRYPTION_KEY), "empty")

SessionSpec == Init /\ [][SessionNext]_vars

-----------------------------------------------------------------------------
(* Properties of the OAuth flow *)

ExchangeFailures == {"http_error", "network_error"}

\* the callback got past state validation
Verified(c) == stateData[c] # NoStateData

\* the flow state of token s is in the namespace (expired or not)
Stored(s) == s # Null /\ OAuthStateKey(s) \in DOMAIN kv

\* C1: a callback that arrives after a callback with the same state has ended
\* with the success page is answered 400 (invalid or expired state, when it
\* passes the parameter checks) and never gets to store a token
C1_SingleUseSequential ==
    \A c \in Callbacks :
        afterSuccess[c] =>
            /\ pc[c] = "done"
            /\ resp[c].status = 400
            /\ ParamCheck(req[c].code, req[c].state, req[c].error) = Null
                  => resp[c].body = "Invalid or expired state"
            /\ ~Verified(c)
            /\ tokenData[c] = NoToken

C1_Witness ==
    \E c \in Callbacks :
        /\ afterSuccess[c]
        /\ resp[c] = [status |-> 400, body |-> "Invalid or expired state"]

\* C2: of the callbacks that carry one state token, at most one gets past
\* state validation
C2_AtMostOneConsumer ==
    \A c, d \in Callbacks :
        (c # d /\ req[c].state = req[d].state) => ~(Verified(c) /\ Verified(d))

\* C3: a callback that carries a stored, unconsumed flow state more than 600 s
\* after the state was stored ends at once with 400 and changes nothing
C3_ExpiredStateRejected ==
    [][\A c \in Callbacks :
          (/\ pc[c] = "request"
           /\ pc'[c] # "request"
           /\ Stored(req'[c].state)
           /\ now > kv[OAuthStateKey(req'[c].state)].val.timestamp + 600 * 1000)
          => (/\ pc'[c] = "done"
              /\ resp'[c].status = 400
              /\ ~Verified(c)'
              /\ kv' = kv)]_vars

C3_Witness ==
    \E c \in Callbacks :
        /\ resp[c] = [status |-> 400, body |-> "Invalid or expired state"]
        /\ Stored(req[c].state)
        /\ now > kv[OAuthStateKey(req[c].state)].val.timestamp + 600 * 1000

\* C4: when the token fetch gives a non-2xx response or a network error, the
\* callback ends with 500 in that step and nothing in the store changes
C4_ExchangeFailureWritesNothing ==
    [][\A c \in Callbacks :
          (exchange[c] = Null /\ exchange'[c] \in ExchangeFailures)
          => (/\ pc'[c] = "done"
              /\ resp'[c].status = 500
              /\ kv' = kv)]_vars

C4_Witness ==
    \E c \in Callbacks :
        /\ exchange[c] \in ExchangeFailures
        /\ resp[c].status = 500
        /\ Stored(req[c].state)

\* C5: after a callback whose token exchange failed, its flow state is no
\* longer in the store
C5_FailedExchangeConsumesState ==
    \A c \in Callbacks :
        exchange[c] \in ExchangeFailures => ~Stored(req[c].state)

\* C6: a callback with an error parameter, without code or state, or with a
\* state under which nothing is stored ends at once with 400 and changes
\* nothing in the store; with an error parameter the answer is the one of the
\* error check
C6_RejectedCallbackChangesNothing ==
    [][\A c \in Callbacks :
          (/\ pc[c] = "request"
           /\ pc'[c] # "request"
           /\ \/ req'[c].error # Null
              \/ req'[c].code = Null
              \/ req'[c].state = Null
              \/ ~Stored(req'[c].state))
          => (/\ pc'[c] = "done"
              /\ resp'[c].status = 400
              /\ kv' = kv
              /\ req'[c].error # Null => resp'[c].body = "OAuth error")]_vars

C6_Witness ==
    \E c \in Callbacks :
        /\ req[c].error # Null
        /\ req[c].code = Null
        /\ resp[c] = [status |-> 400, body |-> "OAuth error"]
        /\ \E i \in DOMAIN issued : Stored(issued[i])

\* C7: a callback works with the user and service stored under its state
\* token; the token it gets is stamped with the clock reading at the end of
\* the exchange and stored, encrypted, under that user and service; no other
\* key of the store changes; resolving the token for that user and service,
\* while it has not expired, gives the access token of the exchange
C7_TokenStoredForFlowUser ==
    [][\A c \in Callbacks :
          /\ (pc[c] = "request" /\ pc'[c] = "exchange")
             => /\ Stored(req'[c].state)
                /\ stateData'[c] = kv[OAuthStateKey(req'[c].state)].val
          /\ (pc[c] = "exchange" /\ pc'[c] = "store")
             => /\ tokenData'[c].issued_at = now'
                /\ tokenData'[c].access_token # Null
          /\ (pc[c] = "store" /\ pc'[c] = "register")
             => LET userId == stateData[c].userId
                    service == stateData[c].service
                    key == OAuthTokenKey(userId, service)
                IN  /\ DOMAIN kv' = DOMAIN kv \cup {key}
                    /\ \A k \in DOMAIN kv : k # key => kv'[k] = kv[k]
                    /\ decrypt(kv'[key].val, ENCRYPTION_KEY, "empty")
                          = JSONstringify(tokenData[c])
                    /\ ~TokenExpired(tokenData[c], now')
                          => getOAuthToken(kv', userId, service, EnvOf(ENCRYPTION_KEY),
                                           now', NoFetch, "empty").value
                               = tokenData[c].access_token]_vars

C7_Witness ==
    \E c \in Callbacks :
        LET key == OAuthTokenKey(stateData[c].userId, stateData[c].service)
        IN  /\ resp[c].status = 200
            /\ key \in DOMAIN kv
            /\ \E u \in Users, svc \in allowedServices :
                  /\ OAuthTokenKey(u, svc) # key
                  /\ OAuthTokenKey(u, svc) \in DOMAIN kv
            /\ getOAuthToken(kv, stateData[c].userId, stateData[c].service,
                             EnvOf(ENCRYPTION_KEY), now, NoFetch, "empty").value
                  = tokenData[c].access_token

\* C8: the registry step of a callback adds the service with its default URL
\* when the service is not registered and leaves the registry as it is when
\* the service is registered
C8_RegisterOnlyIfAbsent ==
    [][\A c \in Callbacks :
          (pc[c] = "register" /\ pc'[c] = "cleanup")
          => LET service == stateData[c].service
                 registry == loadServers(kv, now)
             IN  IF service \in DOMAIN registry
                 THEN loadServers(kv', now') = registry
                 ELSE loadServers(kv', now') =
                          (service :> DefaultServerUrl(service)) @@ registry]_vars

\* C9: a start with a service that is no key of the provider table stores no
\* flow state: every flow state in the store names a service of the table
C9_UnknownServiceStoresNothing ==
    \A i \in DOMAIN issued :
        Stored(issued[i]) =>
            kv[OAuthStateKey(issued[i])].val.service \in allowedServices

\* C10: no two runs of the start handler store the same state token
C10_StatesDistinct ==
    \A i, j \in DOMAIN issued : i # j => issued[i] # issued[j]

-----------------------------------------------------------------------------
(* Properties of token resolution *)

\* the step is a call of getOAuthToken with the environment of the worker
GetStep == call'.op = "getOAuthToken" /\ call'.env.present

\* the text the record under the token key of (userId, service) decrypts to
\* with the passphrase of the worker; EmptyText when it was written under
\* another passphrase or nothing is stored
StoredText(store, userId, service) ==
    LET key == OAuthTokenKey(userId, service)
    IN  IF key \in DOMAIN store /\ store[key].val.key = ENCRYPTION_KEY
        THEN store[key].val.plain
        ELSE EmptyText

\* C11: a call of getOAuthToken at time t on a stored token with issued_at T
\* and expires_in E returns the stored access token, without calling
\* refreshOAuthToken and without changing the store, when t < T + 1000 * E,
\* and calls refreshOAuthToken when t > T + 1000 * E
C11_ExpiryByIssuedAt ==
    [][GetStep =>
          LET text == StoredText(kv, call'.userId, call'.service)
              td == text.json
              expiry == td.issued_at + 1000 * td.expires_in
          IN  (text.kind = "json" /\ td.issued_at > 0 /\ td.expires_in > 0
               /\ td.access_token # Null)
              => /\ now < expiry => /\ ret'.value = td.access_token
                                    /\ ret'.refresh = "none"
                                    /\ kv' = kv
                 /\ now > expiry => ret'.refresh # "none"]_vars

C11_Witness ==
    /\ call.op = "getOAuthToken"
    /\ call.env.present
    /\ ret.value = "at1"
    /\ ret.refresh = "none"
    /\ now = TickStep

StoredToken(store, userId, service) == StoredText(store, userId, service).json

\* C13: after a refresh that succeeds with a response without refresh_token,
\* the stored token object still has the refresh_token it had before
C13_RefreshTokenCarriedOver ==
    [][(GetStep /\ ret'.refresh = "ok") =>
          LET before == StoredToken(kv, call'.userId, call'.service)
              after == StoredToken(kv', call'.userId, call'.service)
          IN  (\E b \in RefreshBodies :
                  b.access_token = ret'.value /\ b.refresh_token = Null)
              => after.refresh_token = before.refresh_token]_vars

\* the stored token is past its lifetime at time t
PastLifetime(td, t) ==
    \/ td.issued_at > 0 /\ td.expires_in > 0 /\ t >= td.issued_at + 1000 * td.expires_in
    \/ ~(td.issued_at > 0 /\ td.expires_in > 0)
       /\ td.expires_at > 0 /\ t >= 1000 * td.expires_at

\* C14: a call of getOAuthToken that finds the token expired calls
\* refreshOAuthToken, and fetches the refresh endpoint when the service has
\* one and the token has a refresh_token; when there is no refresh endpoint
\* or no refresh_token, or the fetch fails, the call returns null and the
\* store is unchanged, so the next call finds the same record and tries again
C14_FailedRefreshKeepsRecord ==
    [][GetStep =>
          LET text == StoredText(kv, call'.userId, call'.service)
              td == text.json
              can == /\ call'.service \in DOMAIN refreshUrl
                     /\ refreshUrl[call'.service] # Null
                     /\ td.refresh_token # Null
          IN  (text.kind = "json" /\ PastLifetime(td, now))
              => /\ ret'.refresh # "none"
                 /\ can <=> ret'.refresh \in {"failed", "ok"}
                 /\ ret'.refresh \in {"cannot", "failed"}
                       => (ret'.value = Null /\ kv' = kv)]_vars

\* a failed fetch after which the next call has fetched again
C14_Witness ==
    /\ call.op = "getOAuthToken"
    /\ call.env.present
    /\ ret.refresh = "failed"
    /\ ret.value = Null
    /\ fetches = 2
    /\ PastLifetime(StoredToken(kv, call.userId, call.service), now)

\* access tokens that only a refresh hands out
RefreshedTokens == {b.access_token : b \in RefreshBodies}

\* C15: a refresh that succeeds stores the new token object stamped with the
\* clock reading of the refresh, and the call returns the new access token; a
\* later call before the new expiry returns that access token and does not
\* call refreshOAuthToken
C15_RefreshedTokenServed ==
    [][GetStep =>
          LET before == StoredToken(kv, call'.userId, call'.service)
              after == StoredToken(kv', call'.userId, call'.service)
          IN  /\ ret'.refresh = "ok"
                 => /\ ret'.value \in RefreshedTokens
                    /\ after.access_token = ret'.value
                    /\ after.issued_at = now'
                    /\ now' > now
              /\ (/\ before.access_token \in RefreshedTokens
                  /\ now < before.issued_at + 1000 * before.expires_in)
                 => /\ ret'.value = before.access_token
                    /\ ret'.refresh = "none"
                    /\ ret'.fetched = 0
                    /\ kv' = kv]_vars

\* a call served from the record that an earlier refresh stored
C15_Witness ==
    /\ call.op = "getOAuthToken"
    /\ call.env.present
    /\ ret.value \in RefreshedTokens
    /\ ret.refresh = "none"
    /\ fetches = 1
    /\ StoredToken(kv, call.userId, call.service).issued_at = now

-----------------------------------------------------------------------------
(* Properties of the connection descriptors and of tool listing *)

ListStep == call'.op = "listAvailTools"

\* the user has an API key record under exactly this name
HasApiKey(store, userId, name) == AuthKey(userId, name) \in DOMAIN store

\* that record was encrypted with passphrase p
ApiKeyUnder(store, userId, name, p) ==
    /\ HasApiKey(store, userId, name)
    /\ store[AuthKey(userId, name)].val.apiKey.key = p

\* the key that record holds
ApiKeyText(store, userId, name) == store[AuthKey(userId, name)].val.apiKey.plain.raw

\* the header of server n comes from the API key stored under n: the key when
\* it was stored with the passphrase of the caller, none when nothing is stored
HeaderFromApiKey(store, userId, n, p, header) ==
    /\ ~HasApiKey(store, userId, n) => header = Null
    /\ ApiKeyUnder(store, userId, n, p)
          => header = authHeader(n, ApiKeyText(store, userId, n))

\* C16: in a build with a passphrase, the header of an OAuth-capable server
\* carries the OAuth access token whenever getOAuthToken returned one, also
\* when an API key is stored; the stored API key is used when it returned
\* none; for a server that is not OAuth-capable no token record is read; and
\* with neither credential there is no Authorization header
C16_CredentialPrecedence ==
    [][(ListStep /\ call'.encryptionKey # Null /\ ~ret'.buildThrew) =>
          \A n \in DOMAIN ret'.servers :
              LET u == call'.userId
                  header == ret'.servers[n].Authorization
              IN  IF toLowerCase(n) \in OAUTH_SERVICES
                  THEN /\ n \in DOMAIN ret'.oauth
                       /\ ret'.oauth[n] # Null
                             => header = authHeader(n, ret'.oauth[n])
                       /\ ret'.oauth[n] = Null
                             => HeaderFromApiKey(kv, u, n, call'.encryptionKey, header)
                  ELSE /\ n \notin DOMAIN ret'.oauth
                       /\ OAuthTokenKey(u, n) \notin ret'.tokenReads
                       /\ HeaderFromApiKey(kv, u, n, call'.encryptionKey, header)]_vars

\* a build that had both an OAuth token and an API key for github
C16_Witness ==
    /\ call.op = "listAvailTools"
    /\ "github" \in DOMAIN ret.oauth
    /\ ret.oauth["github"] = "at1"
    /\ ApiKeyUnder(kv, call.userId, "github", call.encryptionKey)
    /\ ret.servers["github"].Authorization = "Bearer at1"

\* a build that fell back on the API key after a refresh that failed
C16_FallbackReached ==
    /\ call.op = "listAvailTools"
    /\ ret.fetched > 0
    /\ "github" \in DOMAIN ret.oauth
    /\ ret.oauth["github"] = Null
    /\ ret.servers["github"].Authorization = "Bearer key1"

\* the names under which the user has an API key for server n, in any casing,
\* encrypted with passphrase p
ApiKeyNamesFor(store, userId, n, p) ==
    {name \in ApiKeyNames :
        toLowerCase(name) = toLowerCase(n) /\ ApiKeyUnder(store, userId, name, p)}

\* C17: a build with a passphrase that has no OAuth token for a server
\* resolves an API key the user stored under the name of the server in any
\* casing
C17_ApiKeyFoundInAnyCasing ==
    [][(ListStep /\ call'.encryptionKey # Null /\ ~ret'.buildThrew) =>
          \A n \in DOMAIN ret'.servers :
              LET stored == ApiKeyNamesFor(kv, call'.userId, n, call'.encryptionKey)
              IN  (/\ n \in DOMAIN ret'.oauth => ret'.oauth[n] = Null
                   /\ stored # {})
                  => ret'.servers[n].Authorization \in
                        {authHeader(n, ApiKeyText(kv, call'.userId, name)) :
                            name \in stored}]_vars

\* C18: the descriptor map that buildServerConfigs returns has exactly the
\* names of the registry as its keys, each with its URL; a server for which
\* no credential is resolved is in it without an Authorization header
C18_EveryServerDescribed ==
    [][(ListStep /\ DOMAIN loadServers(kv, now) # {} /\ ~ret'.buildThrew) =>
          LET globalServers == loadServers(kv, now)
              u == call'.userId
          IN  /\ DOMAIN ret'.servers = DOMAIN globalServers
              /\ \A n \in DOMAIN globalServers :
                    /\ ret'.servers[n].url = globalServers[n]
                    /\ (/\ n \in DOMAIN ret'.oauth => ret'.oauth[n] = Null
                        /\ ~HasApiKey(kv, u, n))
                       => ret'.servers[n].Authorization = Null]_vars

\* a build that returned two servers, github without a credential
C18_Witness ==
    /\ call.op = "listAvailTools"
    /\ ~ret.buildThrew
    /\ "github" \in DOMAIN ret.servers
    /\ ret.servers["github"].Authorization = Null
    /\ "notion" \in DOMAIN ret.servers
    /\ ret.constructed = 1

\* C19: when the registry has a server whose URL parses, listAvailTools does
\* not fail while the descriptors are built, whatever the other servers and
\* the stored API keys are: it goes on to a client that has the servers whose
\* URL parses
C19_OneBadServerTolerated ==
    [][(ListStep /\ \E n \in DOMAIN loadServers(kv, now) :
                        URLParses(loadServers(kv, now)[n])) =>
          /\ ~ret'.buildThrew
          /\ ret'.constructed = 1
          /\ \A n \in DOMAIN loadServers(kv, now) :
                URLParses(loadServers(kv, now)[n]) => n \in DOMAIN ret'.servers]_vars

\* C20: with an empty registry listAvailTools returns the empty list: no
\* client is constructed, nothing is disconnected, no token or API key record
\* is read, no refresh is fetched and the store stays as it is
C20_EmptyRegistryNoClient ==
    [][(ListStep /\ DOMAIN loadServers(kv, now) = {}) =>
          /\ ~ret'.threw
          /\ ret'.tools = {}
          /\ ret'.constructed = 0
          /\ ret'.disconnects = 0
          /\ ret'.tokenReads = {}
          /\ ret'.authReads = {}
          /\ ret'.fetched = 0
          /\ kv' = kv
          /\ now' = now]_vars

\* such a call by a user who has a token and an API key stored
C20_Witness ==
    /\ call.op = "listAvailTools"
    /\ call.encryptionKey # Null
    /\ DOMAIN loadServers(kv, now) = {}
    /\ ret.constructed = 0
    /\ ~ret.threw
    /\ OAuthTokenKey(call.userId, "github") \in DOMAIN kv
    /\ HasApiKey(kv, call.userId, "github")

-----------------------------------------------------------------------------
(* Properties of the client's lifetime *)

\* the positions of the disconnect calls in a client's log
DisconnectsIn(log) == {i \in DOMAIN log : log[i].call = "disconnect"}

\* createAgentWithMCPTools is what the request called
CalledCreateAgent(r) == hkind[r] \in {"agent", "message"}

\* C21: in listAvailTools with a client, disconnect is called exactly once,
\* after getTools has completed, whether getTools returned or raised; the
\* call then returns the tool names of getTools or raises the error of
\* getTools, whatever disconnect did
C21_ListDisconnectsOnce ==
    \A r \in Requests :
        (hkind[r] = "list" /\ Constructed(r)) =>
            /\ hpc[r] = "getTools" => Len(clog[r]) = 1
            /\ hpc[r] = "finally"
                  => /\ Len(clog[r]) = 2
                     /\ clog[r][2].call = "getTools"
            /\ hpc[r] = "done"
                  => /\ Len(clog[r]) = 3
                     /\ clog[r][2].call = "getTools"
                     /\ clog[r][3].call = "disconnect"
                     /\ IF clog[r][2].outcome = "ok"
                        THEN /\ hret[r].outcome = "returned"
                             /\ hret[r].tools = ToolNames([n \in ClientServers(r) |-> Null])
                        ELSE /\ hret[r].outcome = "threw"
                             /\ hret[r].error = "getTools"

\* a listing whose getTools returned and whose disconnect raised
C21_Witness ==
    \E r \in Requests :
        /\ hkind[r] = "list"
        /\ hpc[r] = "done"
        /\ Len(clog[r]) = 3
        /\ clog[r][2].outcome = "ok"
        /\ clog[r][3].outcome = "throws"
        /\ hret[r].outcome = "returned"
        /\ hret[r].tools # {}

\* a listing whose getTools and disconnect both raised
C21_BothRaise ==
    \E r \in Requests :
        /\ hkind[r] = "list"
        /\ hpc[r] = "done"
        /\ Len(clog[r]) = 3
        /\ clog[r][2].outcome = "throws"
        /\ clog[r][3].outcome = "throws"

\* the request begins in this step
Starts(r) == hpc[r] = "idle" /\ hpc'[r] # "idle"

\* C22: with an empty registry createAgentWithMCPTools constructs no client
\* and returns an agent without tools, and no call of the cleanup it returned
\* calls anything on a client
C22_EmptyRegistryAgent ==
    [][\A r \in Requests :
          /\ (Starts(r) /\ CalledCreateAgent(r)' /\ DOMAIN loadServers(kv, now) = {})
                => /\ clog'[r] = << >>
                   /\ hret'[r].outcome = "returned"
                   /\ hret'[r].tools = {}
          /\ (/\ CalledCreateAgent(r)
              /\ hret[r].outcome = "returned"
              /\ clog[r] = << >>
              /\ hret'[r].cleanups > hret[r].cleanups)
                => clog'[r] = << >>]_vars

\* the cleanup of an agent made for an empty registry, called twice
C22_Witness ==
    \E r \in Requests :
        /\ hkind[r] = "agent"
        /\ hret[r].outcome = "returned"
        /\ hret[r].cleanups = MaxCleanups
        /\ clog[r] = << >>
        /\ DOMAIN loadServers(kv, now) = {}

\* C23: when createAgentWithMCPTools fails after the client was constructed,
\* disconnect has been called once, last, before the error leaves, and the
\* error is the one of getTools or of the Agent constructor also when
\* disconnect raised; when it returns, disconnect is called only by the
\* cleanup, once per call
C23_SetupFailureDisconnects ==
    \A r \in Requests :
        (CalledCreateAgent(r) /\ Constructed(r)) =>
            /\ hret[r].outcome = "threw"
                  => /\ DisconnectsIn(clog[r]) = {Len(clog[r])}
                     /\ hret[r].error \in {"getTools", "Agent"}
                     /\ hret[r].error = "getTools" <=> clog[r][2].outcome = "throws"
            /\ hret[r].outcome = "returned"
                  => /\ Cardinality(DisconnectsIn(clog[r])) = hret[r].cleanups
                     /\ \A i \in DisconnectsIn(clog[r]) : i > 2
            /\ hret[r].outcome = "none" => DisconnectsIn(clog[r]) = {}

\* a setup that failed in the Agent constructor and whose disconnect raised
C23_Witness ==
    \E r \in Requests :
        /\ hkind[r] = "agent"
        /\ hret[r].outcome = "threw"
        /\ hret[r].error = "Agent"
        /\ Len(clog[r]) = 3
        /\ clog[r][3] = ClientCall("disconnect", "throws")

\* a setup that succeeded and whose cleanup was called
C23_CleanupReached ==
    \E r \in Requests :
        /\ hkind[r] = "agent"
        /\ hret[r].outcome = "returned"
        /\ hret[r].cleanups = 1
        /\ Cardinality(DisconnectsIn(clog[r])) = 1

\* C24: when the message handler has ended, the client that
\* createAgentWithMCPTools opened for it has been disconnected
C24_HandlerClosesClient ==
    \A r \in Requests :
        (hkind[r] = "message" /\ hpc[r] = "done" /\ Constructed(r))
            => DisconnectsIn(clog[r]) # {}

-----------------------------------------------------------------------------
(* Properties of the conversation history *)

\* what lies under the key of the thread
StoredConversation ==
    IF ConversationKey(HistoryThread) \in DOMAIN kv
    THEN kv[ConversationKey(HistoryThread)].val
    ELSE NoConversation

StoredMessages == StoredConversation.messages

\* the last n elements of a sequence
LastN(seq, n) ==
    IF Len(seq) <= n THEN seq ELSE SubSeq(seq, Len(seq) - n + 1, Len(seq))

Min(a, b) == IF a <= b THEN a ELSE b

\* the message of a call
MessageOf(c) == [role |-> c.role, content |-> c.content]

\* C25: after n addMessageToHistory calls made one after the other, the
\* stored list has min(n, 20) messages and is the last min(n, 20) messages
\* appended, in the order of the calls; a stored list never has more than 20
C25_HistoryKeepsLast20 ==
    /\ Len(StoredMessages) <= 20
    /\ overlaps = 0
          => /\ Len(appended) = puts
             /\ Len(StoredMessages) = Min(puts, 20)
             /\ StoredMessages = LastN(appended, 20)

\* 22 calls one after the other: the first two messages are gone
C25_Witness ==
    /\ overlaps = 0
    /\ puts = 22
    /\ Len(StoredMessages) = 20
    /\ StoredMessages[1].content = 3
    /\ StoredMessages[20].content = 22

\* the call of writer w loads, puts, in this step
LoadStep(w) == wpc[w] = "idle" /\ wpc'[w] = "loaded"
PutStep(w) == wpc[w] = "loaded" /\ wpc'[w] = "idle"

Contents(messages) == {messages[i].content : i \in DOMAIN messages}

\* the two latest puts are of calls of w and v that loaded the same list: both
\* loaded before either wrote
RacedOnThread(w, v) ==
    /\ w # v
    /\ puts >= 2
    /\ wdone[w].seq = puts
    /\ wdone[v].seq = puts - 1
    /\ wdone[w].call.op = "addMessageToHistory"
    /\ wdone[v].call.op = "addMessageToHistory"
    /\ wdone[w].call.threadId = wdone[v].call.threadId
    /\ wdone[w].loaded = wdone[v].loaded

\* C27: when two addMessageToHistory calls on a thread both load before
\* either saves, the stored history is the one saved last: it has the
\* message of the later save and not the message of the earlier one
C27_HistoryLastWriteWins ==
    \A w, v \in Writers :
        RacedOnThread(w, v) =>
            /\ StoredMessages =
                  LastN(Append(wdone[w].loaded.messages, MessageOf(wdone[w].call)), 20)
            /\ wdone[w].call.content \in Contents(StoredMessages)
            /\ wdone[v].call.content \notin Contents(StoredMessages)

C27_Witness ==
    \E w, v \in Writers :
        /\ RacedOnThread(w, v)
        /\ wdone[w].loaded.messages # << >>
        /\ Len(appended) > Len(StoredMessages)

-----------------------------------------------------------------------------
(* Properties of the server registry *)

\* the registry document as stored
Registry == loadServers(kv, now)

\* the key of the registry that a call means
KeyOf(c) == toLowerCase(c.name)

\* the URL that call c writes: saveServer as given, addServer in lowercase
UrlOf(c) == IF c.op = "addServer" THEN toLowerCase(c.url) ELSE c.url

\* the registry doc after call c, by what the call is to do
Expected(c, doc) ==
    IF c.op \in {"saveServer", "addServer"}
    THEN [k \in DOMAIN doc \cup {KeyOf(c)} |-> IF k = KeyOf(c) THEN UrlOf(c) ELSE doc[k]]
    ELSE [k \in DOMAIN doc \ {IF c.op = "removeServer" THEN KeyOf(c) ELSE c.name}
            |-> doc[k]]

\* the two latest puts are of registry calls of w and v that loaded the same
\* document, which the call of v changed: both loaded before either wrote
RacedOnRegistry(w, v) ==
    /\ w # v
    /\ puts >= 2
    /\ wdone[w].seq = puts
    /\ wdone[v].seq = puts - 1
    /\ wdone[w].call.op \in RegistryOps
    /\ wdone[v].call.op \in RegistryOps
    /\ wdone[w].loaded = wdone[v].loaded
    /\ Expected(wdone[v].call, wdone[v].loaded.servers) # wdone[v].loaded.servers

\* C28: when two registry mutations both load before either saves, the
\* document is the one written last, made from what that call loaded: where
\* the two calls mean different keys, the key of the earlier write is as it
\* was before both, its added server or its removal lost
C28_RegistryLastWriteWins ==
    \A w, v \in Writers :
        RacedOnRegistry(w, v) =>
            LET doc == wdone[w].loaded.servers
                k == KeyOf(wdone[v].call)
            IN  /\ Registry = Expected(wdone[w].call, doc)
                /\ KeyOf(wdone[w].call) # k
                      => /\ k \in DOMAIN Registry <=> k \in DOMAIN doc
                         /\ k \in DOMAIN doc => Registry[k] = doc[k]

\* the saveServer of an OAuth callback lost to a saveServer of another server
C28_Witness ==
    \E w, v \in Writers :
        /\ RacedOnRegistry(w, v)
        /\ wdone[v].call = SaveCall("saveServer", "github", DefaultServerUrl("github"))
        /\ wdone[w].call.op = "saveServer"
        /\ DOMAIN Registry = {"notion"}

\* a removal lost to a saveServer of another server
C28_RemovalLost ==
    \E w, v \in Writers :
        /\ RacedOnRegistry(w, v)
        /\ wdone[v].call.op = "removeServer"
        /\ wdone[w].call.op = "saveServer"
        /\ KeyOf(wdone[v].call) \in DOMAIN Registry

\* the call of writer w runs with no other write between its load and its put
Sequential(w) == wloaded[w].servers = Registry

\* the latest put was of the same call as the one writer w runs
Repeats(w) == \E v \in Writers : wdone[v].seq = puts /\ wdone[v].call = wcall[w]

\* C29: run one after the other, a second saveServer(name, url) and a second
\* removeServer(name) leave the registry as the first left it, removeServer
\* of a name that is not registered leaves the registry as it is, and the
\* load changes nothing
C29_RegistryIdempotent ==
    [][\A w \in Writers :
          /\ LoadStep(w) => kv' = kv
          /\ (/\ PutStep(w)
              /\ wcall[w].op \in {"saveServer", "removeServer"}
              /\ Sequential(w))
                => /\ Repeats(w) => Registry' = Registry
                   /\ (wcall[w].op = "removeServer" /\ KeyOf(wcall[w]) \notin DOMAIN Registry)
                         => Registry' = Registry]_vars

\* saveServer twice in a row; removeServer of a name that is not registered
C29_Witness ==
    \E w, v \in Writers :
        /\ w # v
        /\ puts >= 2
        /\ wdone[w].seq = puts
        /\ wdone[v].seq = puts - 1
        /\ wdone[w].call = wdone[v].call
        /\ wdone[w].call.op = "saveServer"
        /\ wdone[w].loaded.servers = Registry

C29_RemoveOfAbsentReached ==
    \E w \in Writers :
        /\ wdone[w].seq = puts
        /\ wdone[w].call.op = "removeServer"
        /\ KeyOf(wdone[w].call) \notin DOMAIN wdone[w].loaded.servers
        /\ DOMAIN Registry # {}

\* C30: every key of the registry is lowercase; a save under any casing of a
\* name writes the one entry under the lowercase name; a removal under any
\* casing of a registered name removes that entry
C30_RegistryKeysCaseInsensitive ==
    [][/\ \A k \in DOMAIN Registry' : toLowerCase(k) = k
       /\ \A w \in Writers :
             PutStep(w) =>
                IF wcall[w].op \in {"saveServer", "addServer"}
                THEN /\ DOMAIN Registry' = DOMAIN wloaded[w].servers \cup {KeyOf(wcall[w])}
                     /\ Registry'[KeyOf(wcall[w])] = UrlOf(wcall[w])
                ELSE KeyOf(wcall[w]) \notin DOMAIN Registry']_vars

\* C31: after saveServer(name, url), and after addServer(name, url) of the
\* API worker, the registry maps the lowercase name to the lowercase url
C31_RegistryUrlLowercase ==
    [][\A w \in Writers :
          (PutStep(w) /\ wcall[w].op \in {"saveServer", "addServer"})
             => /\ KeyOf(wcall[w]) \in DOMAIN Registry'
                /\ Registry'[KeyOf(wcall[w])] = toLowerCase(wcall[w].url)]_vars

\* addServer of the API worker was given a URL with capitals
C31_ApiLowercasesReached ==
    \E w \in Writers :
        /\ wdone[w].seq = puts
        /\ wdone[w].call = SaveCall("addServer", "Notion", "https://X.test/MCP")
        /\ Registry["notion"] = "https://x.test/mcp"

-----------------------------------------------------------------------------
(* Properties of the credential records and of the view *)

\* the view on store st at time t, as the hub computes it for a caller with
\* passphrase p, when no refresh endpoint answers
ViewOf(st, t, userId, p, requireAuth, garble) ==
    getAccessibleServersForUser(st, userId, p, EnvOf(ENCRYPTION_KEY), requireAuth,
                                t, NoFetch, garble)

\* the entries of a list for server n
EntriesFor(list, n) == {i \in DOMAIN list : list[i].name = n}

\* this step stores API key k of user u under name n as storeUserApiKey does
KeyStored(u, n, k) ==
    /\ AuthKey(u, n) \in DOMAIN kv'
    /\ kv'[AuthKey(u, n)].val = [apiKey |-> encrypt(RawText(k), ENCRYPTION_KEY)]
    /\ kv' # kv

\* C32: once a server was registered under a name and an API key of a user
\* is stored under that name, the view of the user with requireAuth has
\* exactly one entry for the server, with the registered URL and hasAuth
\* true, and no entry with hasAuth false; a server that a step removes from
\* the registry is in no view after it
C32_RegisterKeyAccessible ==
    [][/\ \A u \in AccessUsers, n \in AccessServerNames, k \in AccessApiKeys :
             (KeyStored(u, n, k) /\ toLowerCase(n) \in DOMAIN Registry')
                => LET v == ViewOf(kv', now', u, ENCRYPTION_KEY, TRUE, "empty")
                       es == EntriesFor(v.list, toLowerCase(n))
                   IN  /\ ~v.threw
                       /\ Cardinality(es) = 1
                       /\ \A i \in es : /\ v.list[i].url = Registry'[toLowerCase(n)]
                                        /\ v.list[i].hasAuth
                       /\ \A i \in DOMAIN v.list : v.list[i].hasAuth
       /\ \A n \in DOMAIN Registry \ DOMAIN Registry' :
             \A u \in AccessUsers, ra \in BOOLEAN :
                EntriesFor(ViewOf(kv', now', u, ENCRYPTION_KEY, ra, "empty").list, n) = {}]_vars

\* the view of U1 with requireAuth lists notion, registered and keyed under
\* the lowercase name
C32_LowercaseNameReached ==
    /\ call.op = "getAccessibleServersForUser"
    /\ call.userId = "U1"
    /\ call.requireAuth
    /\ call.encryptionKey = ENCRYPTION_KEY
    /\ AuthKey("U1", "notion") \in DOMAIN kv
    /\ AuthKey("U1", "Notion") \notin DOMAIN kv
    /\ \E i \in DOMAIN ret.accessible :
          ret.accessible[i] = [name |-> "notion", url |-> AccessServerUrl, hasAuth |-> TRUE]

\* this step is a call of getAccessibleServersForUser
ViewStep == call'.op = "getAccessibleServersForUser"

\* C33: a call of getAccessibleServersForUser, whatever the user, the
\* passphrase and requireAuth, leaves every record of the store (registry,
\* API keys, OAuth tokens, flow states) as it was, also when a stored OAuth
\* token is expired
C33_ViewReadOnly == [][ViewStep => kv' = kv]_vars

\* a view that met an expired token which cannot be refreshed wrote nothing
C33_ExpiredUnrefreshedReached ==
    /\ call.op = "getAccessibleServersForUser"
    /\ call.userId = "U1"
    /\ call.encryptionKey = ENCRYPTION_KEY
    /\ "github" \in DOMAIN Registry
    /\ StoredToken(kv, "U1", "github") = EarlierToken
    /\ PastLifetime(EarlierToken, now)
    /\ ret.fetched = 0

\* the names under which the forms and the hub store API keys
KeyNames == AccessServerNames

\* what getUserApiKey(u, n) returns in the store st
KeyOfUser(st, t, u, n) == getUserApiKey(st, u, n, t)

\* C34: once getUserApiKey(user, server) returns a key, it returns a key
\* after every later step (a key stored again, a credential form, a server
\* removed or registered, an OAuth callback), and a step that changes what
\* it returns changes it to the key that the step submitted, encrypted
C34_ApiKeyNeverRemoved ==
    [][\A u \in AccessUsers, n \in KeyNames :
          KeyOfUser(kv, now, u, n) # NoCiphertext
             => \/ KeyOfUser(kv', now', u, n) = KeyOfUser(kv, now, u, n)
                \/ \E k \in AccessApiKeys :
                      KeyOfUser(kv', now', u, n) = encrypt(RawText(k), ENCRYPTION_KEY)]_vars

\* a key stored by addUserApiKey was replaced by the key of a credential
\* form, and is still returned after an OAuth callback registered a server
C34_OverwrittenReached ==
    /\ KeyOfUser(kv, now, "U1", "notion") = encrypt(RawText("key1"), ENCRYPTION_KEY)
    /\ "createdAt" \in DOMAIN kv[AuthKey("U1", "notion")].val
    /\ "github" \in DOMAIN Registry
    /\ OAuthTokenKey("U2", "github") \in DOMAIN kv

\* the keys of the store that this step wrote or removed
ChangedKeys ==
    {k \in DOMAIN kv \cup DOMAIN kv' :
        \/ k \notin DOMAIN kv
        \/ k \notin DOMAIN kv'
        \/ kv[k] # kv'[k]}

\* the credential keys of user a: API keys and OAuth tokens
CredentialKeys(a) ==
    {AuthKey(a, n) : n \in KeyNames \cup OAUTH_SERVICES}
    \cup {OAuthTokenKey(a, svc) : svc \in OAUTH_SERVICES}

\* what user b gets on store st: the descriptors of buildServerConfigs and
\* the list of the view, for passphrase p, foreign-key decoding g and refresh
\* answer r, and how often the two fetched the refresh endpoint
SeenBy(st, t, b, p, g, r) ==
    LET build == buildServerConfigs(st, b, p, EnvOf(ENCRYPTION_KEY), t, r, g)
        view == getAccessibleServersForUser(st, b, p, EnvOf(ENCRYPTION_KEY), FALSE,
                                            t, r, g)
    IN  [servers |-> build.servers, buildThrew |-> build.threw,
         list |-> view.list, viewThrew |-> view.threw,
         fetched |-> build.fetched + view.fetched]

\* C35: a step that writes only credential records of user A (an API key or
\* an OAuth token stored or overwritten) changes nothing of what any other
\* user B gets: the descriptors, with their Authorization headers, and the
\* hasAuth values of the view are the same before and after
C35_UserIsolation ==
    [][\A a \in AccessUsers :
          (ChangedKeys # {} /\ ChangedKeys \subseteq CredentialKeys(a))
             => \A b \in AccessUsers \ {a}, p \in AccessPassphrases :
                   \A before \in {SeenBy(kv, now, b, p[1], p[2], NoFetch)} :
                      /\ SeenBy(kv', now, b, p[1], p[2], NoFetch) = before
                      /\ before.fetched > 0
                            => \A r \in RefreshOutcomes :
                                  SeenBy(kv', now, b, p[1], p[2], r)
                                     = SeenBy(kv, now, b, p[1], p[2], r)]_vars

\* U1 has a key for notion and a token for github, and the view of U2 on
\* the same registry reports hasAuth false for both
C35_Witness ==
    /\ call.op = "getAccessibleServersForUser"
    /\ call.userId = "U2"
    /\ call.encryptionKey = ENCRYPTION_KEY
    /\ KeyOfUser(kv, now, "U1", "notion") # NoCiphertext
    /\ OAuthTokenKey("U1", "github") \in DOMAIN kv
    /\ DOMAIN Registry = {"github", "notion"}
    /\ \A i \in DOMAIN ret.accessible : ~ret.accessible[i].hasAuth
    /\ Len(ret.accessible) = 2

\* v is what encrypt gives for some text under a passphrase
Encrypted(v) == \E p \in HubPassphrases : v = encrypt(v.plain, p)

AuthKeys == {AuthKey(u, n) : u \in AccessUsers, n \in KeyNames \cup OAUTH_SERVICES}
TokenKeys == {OAuthTokenKey(u, svc) : u \in AccessUsers, svc \in OAUTH_SERVICES}

\* C36: in every state, the apiKey of each record under an API-key key is
\* the output of encrypt or null, and each value under an OAuth-token key
\* is the output of encrypt, whichever handler wrote it
C36_NoPlaintextStored ==
    /\ \A k \in DOMAIN kv \cap AuthKeys :
          kv[k].val.apiKey = NoCiphertext \/ Encrypted(kv[k].val.apiKey)
    /\ \A k \in DOMAIN kv \cap TokenKeys : Encrypted(kv[k].val)

\* records of the add_server form and of the credential form, one with a
\* key and one without, next to the token of a callback
C36_Witness ==
    /\ KeyOfUser(kv, now, "U2", "Notion") = encrypt(RawText("key2"), ENCRYPTION_KEY)
    /\ AuthKey("U1", "notion") \in DOMAIN kv
    /\ kv[AuthKey("U1", "notion")].val.apiKey = NoCiphertext
    /\ "createdAt" \in DOMAIN kv[AuthKey("U1", "notion")].val

\* the token that a refresh stored, next to the token of a callback
C36_RefreshedReached ==
    /\ StoredToken(kv, "U1", "github").access_token \in RefreshedTokens
    /\ StoredToken(kv, "U2", "github").access_token = CallbackToken.access_token
    /\ Encrypted(kv[OAuthTokenKey("U1", "github")].val)

\* server n has a stored API key of user u that decrypts to "" under
\* passphrase p, and no OAuth token of u stands in for it
DecryptsToEmpty(st, t, u, n, p) ==
    /\ p # Null
    /\ findUserApiKey(st, u, n, p, t, "empty") = EmptyText
    /\ \/ toLowerCase(n) \notin OAUTH_SERVICES
       \/ getOAuthToken(st, u, n, EnvOf(ENCRYPTION_KEY), t, NoFetch, "empty").value = Null

\* C37: for a registered server whose stored API key decrypts to the empty
\* string, a call of getAccessibleServersForUser does not fail and reports
\* hasAuth false, and buildServerConfigs on the same store does not fail and
\* gives the server no Authorization header
C37_EmptyKeyIsAbsent ==
    [][(ViewStep /\ ret'.garble = "empty" /\ ~call'.requireAuth) =>
          \A n \in DOMAIN Registry :
             DecryptsToEmpty(kv, now, call'.userId, n, call'.encryptionKey) =>
                LET build == buildServerConfigs(kv, call'.userId, call'.encryptionKey,
                                                call'.env, now, NoFetch, "empty")
                IN  /\ ~build.threw
                    /\ build.servers[n].Authorization = Null
                    /\ ~ret'.threw
                    /\ \A i \in EntriesFor(ret'.accessible, n) :
                          ~ret'.accessible[i].hasAuth]_vars

\* buildServerConfigs gave no header to a server whose key decrypts to ""
C37_NoHeaderReached ==
    /\ call.op = "getAccessibleServersForUser"
    /\ ret.garble = "empty"
    /\ \E n \in DOMAIN Registry :
          /\ DecryptsToEmpty(kv, now, call.userId, n, call.encryptionKey)
          /\ buildServerConfigs(kv, call.userId, call.encryptionKey, call.env, now,
                                NoFetch, "empty").servers[n].Authorization = Null

\* C40: when a call of getAccessibleServersForUser and buildServerConfigs on
\* the same store, for the same user and passphrase (given or not), both
\* return, the view reports hasAuth true for a server exactly when the
\* descriptor of that server has an Authorization header
C40_ViewAgreesWithDescriptors ==
    [][(ViewStep /\ ~call'.requireAuth /\ ret'.fetched = 0) =>
          LET build == buildServerConfigs(kv, call'.userId, call'.encryptionKey,
                                          call'.env, now, NoFetch, ret'.garble)
          IN  (~build.threw /\ ~ret'.threw) =>
                 \A i \in DOMAIN ret'.accessible :
                    ret'.accessible[i].hasAuth
                       <=> build.servers[ret'.accessible[i].name].Authorization # Null]_vars

\* the two agree on a server with a key and on a server without one
C40_AgreeReached ==
    /\ call.op = "getAccessibleServersForUser"
    /\ call.encryptionKey = ENCRYPTION_KEY
    /\ ~call.requireAuth
    /\ \E i, j \in DOMAIN ret.accessible :
          /\ ret.accessible[i].hasAuth
          /\ ~ret.accessible[j].hasAuth
          /\ \A k \in {i, j} :
                ret.accessible[k].hasAuth
                   <=> buildServerConfigs(kv, call.userId, call.encryptionKey, call.env,
                                          now, NoFetch, ret.garble)
                          .servers[ret.accessible[k].name].Authorization # Null

-----------------------------------------------------------------------------
(* Properties of the agent session *)

\* this step is a run of the message handler
MessageStep == call'.op = "message"

\* C38: when the thread has stored messages, the instructions of the agent
\* that the message handler builds are the rendering of the history the
\* handler loaded: the header and one "role: content" line per message,
\* the oldest first
C38_InstructionsRenderHistory ==
    [][(MessageStep /\ ~ret'.threw /\ ret'.history # << >>) =>
          /\ ret'.history = loadConversationHistory(kv, ChatThread, now).messages
          /\ ret'.instructions = buildConversationContext(ret'.history)]_vars

\* the handler loaded a history of two messages and built an agent
C38_HistoryLoadedReached ==
    /\ call.op = "message"
    /\ ~ret.threw
    /\ Len(ret.history) = 2
    /\ buildConversationContext(ret.history)
          = "Previous conversation:\nuser: hi\nassistant: re hi\n\n"

\* user u has an unexpired token for github in the store, github is
\* registered, and a call with the passphrase of the worker built descriptors
TokenInForce(u) ==
    /\ "github" \in DOMAIN Registry
    /\ StoredToken(kv, u, "github").access_token # Null
    /\ ~PastLifetime(StoredToken(kv, u, "github"), now)

\* C39: after a callback stored a token for (user, github), and while that
\* token is unexpired, the descriptors built for the user carry the access
\* token in the Authorization header of github, in the show_tools handler
\* and in the message handler alike
C39_TokenOnBothPaths ==
    [][((ListStep \/ MessageStep) /\ TokenInForce(call'.userId) /\ ~ret'.buildThrew) =>
          /\ "github" \in DOMAIN ret'.servers
          /\ ret'.servers["github"].Authorization
                = "Bearer " \o StoredToken(kv, call'.userId, "github").access_token]_vars

\* the show_tools handler presented the token of the callback
C39_ToolsPathReached ==
    /\ call.op = "listAvailTools"
    /\ TokenInForce(call.userId)
    /\ ret.servers["github"].Authorization = "Bearer at6"

====
